---------------------------- MODULE Spec2Model ----------------------------
(***************************************************************************)
(* A model of the Syncplay desktop client (src-tauri).                     *)
(*                                                                         *)
(*  - SpecPlaylist : client/playlist.rs, the Playlist operations           *)
(*  - SpecIgnoring : commands/connection.rs, the ignoring-on-the-fly       *)
(*                   counters (update_ignoring_on_the_fly and              *)
(*                   send_state_message) driven from arbitrary counters    *)
(*  - Spec         : one server session: network/connection.rs (the        *)
(*                   transport worker), network/protocol.rs (decode) and   *)
(*                   commands/connection.rs (connect_to_server, the        *)
(*                   message loop and its handlers, disconnect), while the *)
(*                   server is in the opening handshake (TLS, Error,       *)
(*                   Hello lines)                                          *)
(*  - SpecState    : the same session while the server broadcasts State    *)
(*                   lines                                                 *)
(*                                                                         *)
(* Rust's Option<T> is modelled as a sequence of length at most one:       *)
(* None is << >> and Some(x) is <<x>>.  Vec indices are 0-based as in the  *)
(* source; the i-th element of a Vec v is v[i + 1] here.                   *)
(***************************************************************************)
EXTENDS Integers, Sequences, FiniteSets, TLC

None == << >>
Some(x) == <<x>>
IsSome(o) == Len(o) = 1
Unwrap(o) == o[1]

(***************************************************************************)
(* Bounds of the model.                                                    *)
(***************************************************************************)
\* longest playlist explored
MaxItems == 3
\* number of distinct file names offered to the playlist operations
NumFiles == 3

\* largest ignoring-on-the-fly counter value explored
MaxCounter == 2

Files == 1..NumFiles

VARIABLES
    \* ---- client/playlist.rs: struct Playlist
    items,              \* Vec<PlaylistItem>, by file name
    current_index,      \* Option<usize>
    last_playlist_call, \* the last call on the playlist when it was
                        \* remove_item or reorder: the method, its indices
                        \* and the playlist it found
    \* ---- app_state.rs: AppState
    ignoring_on_the_fly, \* IgnoringOnTheFlyState { server, client }
    \* ---- the last call of send_state_message: its arguments, the counters it
    \*      found and the StateMessage it built (None before the first call)
    last_state_call,
    connection,         \* AppState::connection: Option<Arc<Connection>>
    last_hello,         \* AppState::last_hello: Option<HelloMessage>
    hello_sent,         \* AppState::hello_sent
    last_latency_calculation, \* AppState::last_latency_calculation
    last_global_update, \* AppState::last_global_update is Some
    player,             \* AppState::player is Some
    ready_at_start,     \* config.user.ready_at_start
    tls_available,      \* create_tls_connector().is_ok()
    events,             \* events published upward, in order: tls-status-changed,
                        \* connection-status-changed, the emptied user list and
                        \* playlist, chat-message-received of type error, and
                        \* the system chat line of the disconnect clean-up
    users,              \* ClientState: the users map, as the set of its entries
    file,               \* ClientState: the current file, Option<String>
    ready,              \* ClientState: the local ready flag
    autoplay,           \* AppState::autoplay: countdown_active, countdown_remaining
    room_warning_state, \* AppState::room_warning_state
    room_warning_task_running, \* AppState::room_warning_task_running
    autoplay_enabled,   \* config.user.autoplay_enabled
    \* ---- the player and the autoplay countdown tasks
    player_paused,      \* what the player reports: Option<bool>
    player_commands,    \* the commands given to the player, in order
    countdown_tasks,    \* the tasks start_autoplay_countdown has spawned, each
                        \* with its position and the checks it has made
    \* ---- client/chat.rs: struct ChatManager
    chat_messages,      \* ChatManager::messages: Vec<ChatMessage>
    max_messages,       \* ChatManager::max_messages
    added,              \* every message given to add_message, in order
    \* ---- controlled rooms
    room,               \* ClientState: the current room
    controlled_room_passwords, \* AppState::controlled_room_passwords
    last_control_password_attempt, \* AppState::last_control_password_attempt
    room_list,          \* config.user.room_list
    \* ---- player/controller.rs: the player and the player state pump
    player_file,        \* PlayerState::filename
    player_duration,    \* PlayerState::duration, in half seconds
    player_position,    \* PlayerState::position, in half seconds
    pending_file,       \* the file name the player has been told to load and
                        \* has not reported yet
    pending_duration,   \* the duration the player has not reported yet
    last_sent,          \* spawn_player_state_loop: last_sent
    eof_sent,           \* spawn_player_state_loop: eof_sent
    suppress_next_file_update, \* AppState::suppress_next_file_update
    suppress_unpause_check,    \* AppState::suppress_unpause_check
    unpause_action,     \* config.user.unpause_action
    pump_ticks,         \* how many times the interval of the pump has ticked
    last_tick,          \* the last tick of the pump: what it found and did
    server_loaded,      \* the file load_media_by_name loaded for the server,
                        \* until the user opens a file in the player
    list_progress,      \* the List arm of handle_server_message while it
                        \* rebuilds the users map: the map it found, the
                        \* users of the message and those still to be added
    lists_handled,      \* how many List messages have been handled
    \* ---- player/mpv_ipc.rs: struct MpvIpc, its two tasks and the socket
    next_request_id,    \* MpvIpc::next_request_id
    pending_requests,   \* MpvIpc::pending_requests: request_id -> the oneshot
                        \* sender of the call that waits for it
    mpv_cmd_rx,         \* the command channel of the write task
    mpv_writer,         \* the write task: "running" or "terminated"
    mpv_reader,         \* the read task: "running" or "terminated"
    mpv_open,           \* MPV holds its end of the IPC socket open
    mpv_inbox,          \* commands written to the socket MPV has yet to answer
    mpv_lines,          \* lines MPV wrote that the read task has yet to read
    mpv_answers,        \* how many responses MPV has written
    mpv_calls,          \* the calls of send_command_async, in order of their
                        \* request_id allocation: where each one is, the
                        \* request_id it took and what it returned
    \* ---- commands/connection.rs: the tasks that outlive a session
    old_loops,          \* message loops of earlier sessions that have yet to
                        \* find their channel closed
    warning_tasks,      \* the tasks start_room_warning_loop spawned, each
                        \* "sleeping" in its ticker or "ended"
    connects,           \* how many calls of connect_to_server went past the
                        \* is_connected check
    \* ---- player/controller.rs: the end of a file
    mpv_events,         \* the channel of spawn_event_loop: MpvPlayerEvents of
                        \* the player not yet taken
    eof_log,            \* the calls of handle_end_of_file: who called, and
                        \* the current index it left
    files_ended,        \* how many files the player has played to their end
    unpaused_by,        \* who last changed the pause state of the player, the
                        \* user at the player or a State message: "user" or
                        \* "remote" while it plays by their doing
    update_log,         \* the calls of update_playlist: the arguments, the
                        \* playlist before and after, and the result
    \* ---- client/sync.rs: struct SyncEngine, and what surrounds its calls
    sync_engine,        \* AppState::sync_engine: slowdown_active,
                        \* behind_first_detected and the three *_on_desync flags
    now,                \* std::time::Instant::now(), in ticks of 0.05 s
    dont_slow_down_with_me, \* config.user.dont_slow_down_with_me
    sync_calls,         \* how many times handle_state_update reached the engine
    last_sync_call,     \* the last call of calculate_sync_actions: its inputs,
                        \* the engine before and after, the actions returned,
                        \* the commands the player was given for them, and
                        \* whether every call since the timer was set found
                        \* the player behind by more than 1.75 s
    unpause_log,        \* per set_paused(false) of a countdown: the task that
                        \* commanded it and how many checks it had made
    \* ---- network/connection.rs: Connection and its worker task
    tx,                 \* Connection::tx is Some
    cmd_rx,             \* the command channel: ConnectionCommands not yet taken
    msg_rx,             \* the message channel: ProtocolMessages not yet handled
    transport,          \* the worker's Transport: "Plain", "Tls" or "Empty"
    worker,             \* "not_started", "running" or "exited"
    upgrade_response,   \* the oneshot of UpgradeTls: "none", "pending", "ok",
                        \* "err" or "dropped"
    \* ---- the stream
    lines_read,         \* how many lines of the server the worker has read
    wire,               \* what the worker wrote to the stream, in order, each
                        \* with the transport it went over
    \* ---- tasks
    connect_pc,         \* connect_to_server: "start", "tcp_connected", "done"
    loop_pc,            \* the message loop: "not_started", "idle",
                        \* "state_update", "tls_upgrade", "closed"
    current_message,    \* the message whose handler is suspended at an await
    pump_sends,         \* State messages the player state pump has sent
    \* ---- history
    sends,              \* messages Connection::send accepted, in call order
    hello_origin,       \* which call of send_hello sent Hello, and the events
                        \* published before it
    state_log,          \* per handled State: the message, whether the reply
                        \* could be handed to the connection, and the reply
    worker_exit,        \* why the worker left its loop
    read_log            \* the lines the worker has read, in order

playlistVars == <<items, current_index, last_playlist_call>>

ignoringVars == <<ignoring_on_the_fly, last_state_call>>

appVars == <<connection, last_hello, hello_sent, last_latency_calculation,
             last_global_update, events>>

configVars == <<player, ready_at_start, tls_available, autoplay_enabled>>

connVars == <<tx, cmd_rx, msg_rx, transport, worker, upgrade_response>>

serverVars == <<lines_read>>

taskVars == <<connect_pc, loop_pc, current_message, pump_sends>>

historyVars == <<sends, hello_origin, state_log, worker_exit, read_log, wire>>

roomVars == <<users, file, ready, autoplay, room_warning_state,
              room_warning_task_running>>

autoplayVars == <<player_paused, player_commands, countdown_tasks, unpause_log>>

syncVars == <<sync_engine, now, dont_slow_down_with_me, sync_calls, last_sync_call>>

chatVars == <<chat_messages, max_messages, added>>

controlVars == <<room, controlled_room_passwords, last_control_password_attempt,
                 room_list>>

pumpVars == <<player_file, player_duration, player_position, pending_file,
              pending_duration, last_sent, eof_sent, suppress_next_file_update,
              unpause_action, pump_ticks, last_tick, server_loaded>>

listVars == <<list_progress, lists_handled>>

mpvVars == <<next_request_id, pending_requests, mpv_cmd_rx, mpv_writer, mpv_reader,
             mpv_open, mpv_inbox, mpv_lines, mpv_answers, mpv_calls>>

sessionsVars == <<old_loops, warning_tasks, connects>>

eofVars == <<mpv_events, eof_log, files_ended>>

userVars == <<unpaused_by, update_log>>

extraVars == <<mpvVars, sessionsVars, eofVars, userVars>>

otherVars == <<chatVars, controlVars, pumpVars, suppress_unpause_check, listVars,
               extraVars>>

restVars == <<autoplayVars, syncVars, otherVars>>

clientVars == <<roomVars, restVars>>

sessionVars == <<appVars, configVars, clientVars, connVars, serverVars, taskVars,
                 historyVars>>

vars == <<playlistVars, ignoringVars, sessionVars>>

(***************************************************************************)
(* client/playlist.rs                                                      *)
(***************************************************************************)
\* Vec::remove(index)
VecRemove(v, index) ==
    [k \in 1..(Len(v) - 1) |-> IF k <= index THEN v[k] ELSE v[k + 1]]

\* Vec::insert(index, x)
VecInsert(v, index, x) ==
    [k \in 1..(Len(v) + 1) |->
        IF k <= index THEN v[k] ELSE IF k = index + 1 THEN x ELSE v[k - 1]]

\* every Vec<String> of at most n file names
RECURSIVE VecsUpTo(_)
VecsUpTo(n) ==
    IF n = 0 THEN {<< >>}
    ELSE LET shorter == VecsUpTo(n - 1)
         IN  shorter \cup {Append(v, f) : v \in {w \in shorter : Len(w) = n - 1}, f \in Files}

Playlist(its, cur) == [items |-> its, current_index |-> cur]

\* Playlist::set_items
set_items(pl, new_items) ==
    Playlist(new_items, IF new_items /= << >> THEN Some(0) ELSE None)

\* Playlist::add_item
add_item(pl, filename) ==
    LET pushed == Append(pl.items, filename)
    IN  Playlist(pushed, IF Len(pushed) = 1 THEN Some(0) ELSE pl.current_index)

\* remove_item without the clamp of a current index left past the end
remove_item_no_clamp(pl, index) ==
    IF index >= Len(pl.items) THEN pl
    ELSE LET removed == VecRemove(pl.items, index)
             cur == pl.current_index
         IN  Playlist(removed,
                 IF ~IsSome(cur) THEN cur
                 ELSE IF Unwrap(cur) = index
                      THEN (IF removed = << >> THEN None ELSE cur)
                 ELSE IF Unwrap(cur) > index THEN Some(Unwrap(cur) - 1)
                 ELSE cur)

\* Playlist::remove_item
remove_item(pl, index) ==
    IF index >= Len(pl.items) THEN pl
    ELSE LET removed == VecRemove(pl.items, index)
             cur == pl.current_index
         IN  Playlist(removed,
                 IF ~IsSome(cur) THEN cur
                 ELSE IF Unwrap(cur) = index
                      THEN (IF removed = << >> THEN None
                            ELSE IF Unwrap(cur) >= Len(removed) THEN Some(Len(removed) - 1)
                            ELSE cur)
                 ELSE IF Unwrap(cur) > index THEN Some(Unwrap(cur) - 1)
                 ELSE cur)

\* Playlist::set_current_index
set_current_index(pl, index) ==
    IF index >= Len(pl.items) THEN pl
    ELSE Playlist(pl.items, Some(index))

\* Playlist::next
next(pl) ==
    IF pl.items = << >> THEN pl
    ELSE LET cur == pl.current_index
             next_index == IF IsSome(cur) /\ Unwrap(cur) + 1 < Len(pl.items)
                           THEN Unwrap(cur) + 1
                           ELSE 0
         IN  Playlist(pl.items, Some(next_index))

\* Playlist::previous
previous(pl) ==
    IF pl.items = << >> THEN pl
    ELSE LET cur == pl.current_index
             prev_index == IF IsSome(cur) /\ Unwrap(cur) /= 0
                           THEN Unwrap(cur) - 1
                           ELSE Len(pl.items) - 1
         IN  Playlist(pl.items, Some(prev_index))

\* Playlist::clear
clear(pl) == Playlist(<< >>, None)

\* reorder that leaves the current index where it was
reorder_keeping_index(pl, from_index, to_index) ==
    IF from_index >= Len(pl.items) \/ to_index >= Len(pl.items) THEN pl
    ELSE IF from_index = to_index THEN pl
    ELSE LET item == pl.items[from_index + 1]
             moved == VecInsert(VecRemove(pl.items, from_index), to_index, item)
         IN  Playlist(moved, pl.current_index)

\* Playlist::reorder
reorder(pl, from_index, to_index) ==
    IF from_index >= Len(pl.items) \/ to_index >= Len(pl.items) THEN pl
    ELSE IF from_index = to_index THEN pl
    ELSE LET item == pl.items[from_index + 1]
             moved == VecInsert(VecRemove(pl.items, from_index), to_index, item)
             cur == pl.current_index
         IN  Playlist(moved,
                 IF ~IsSome(cur) THEN cur
                 ELSE IF Unwrap(cur) = from_index THEN Some(to_index)
                 ELSE IF from_index < Unwrap(cur) /\ to_index >= Unwrap(cur)
                      THEN Some(Unwrap(cur) - 1)
                 ELSE IF from_index > Unwrap(cur) /\ to_index <= Unwrap(cur)
                      THEN Some(Unwrap(cur) + 1)
                 ELSE cur)

ThePlaylist == Playlist(items, current_index)

StorePlaylist(pl) ==
    /\ items' = pl.items
    /\ current_index' = pl.current_index
    /\ UNCHANGED <<ignoringVars, sessionVars>>

\* a call on the playlist: the method, the indices it was given and the
\* playlist it found
PlaylistCall(method, first, second) ==
    [method |-> method, first |-> first, second |-> second, before |-> ThePlaylist]

Called(method, first, second) ==
    last_playlist_call' = Some(PlaylistCall(method, first, second))

\* the last call was neither remove_item nor reorder
Uncalled == last_playlist_call' = None

\* indices a caller may pass, in and out of bounds
Indices == 0..MaxItems

SetItems ==
    \E new_items \in VecsUpTo(MaxItems) :
        /\ StorePlaylist(set_items(ThePlaylist, new_items))
        /\ Uncalled

AddItem ==
    /\ Len(items) < MaxItems
    /\ \E f \in Files : StorePlaylist(add_item(ThePlaylist, f))
    /\ Uncalled

RemoveItem ==
    \E index \in Indices :
        /\ StorePlaylist(remove_item(ThePlaylist, index))
        /\ Called("remove_item", index, 0)

SetCurrentIndex ==
    \E index \in Indices :
        /\ StorePlaylist(set_current_index(ThePlaylist, index))
        /\ Uncalled

PlaylistNext == StorePlaylist(next(ThePlaylist)) /\ Uncalled

PlaylistPrevious == StorePlaylist(previous(ThePlaylist)) /\ Uncalled

PlaylistClear == StorePlaylist(clear(ThePlaylist)) /\ Uncalled

Reorder ==
    \E from_index \in Indices, to_index \in Indices :
        /\ StorePlaylist(reorder(ThePlaylist, from_index, to_index))
        /\ Called("reorder", from_index, to_index)

(***************************************************************************)
(* client/chat.rs: the chat history                                        *)
(***************************************************************************)
MaxChatCapacity == 3

MaxChatAdds == 5

\* the messages a caller may add
ChatMessages == {"first", "second"}

\* messages.drain(0..excess)
Drain(vec, excess) == SubSeq(vec, excess + 1, Len(vec))

\* ChatManager::add_message that trims the newest messages
add_message_trimming_newest(history, capacity, message) ==
    LET pushed == Append(history, message)
    IN  IF Len(pushed) > capacity THEN SubSeq(pushed, 1, capacity) ELSE pushed

\* ChatManager::add_message: the history after the push and the trim
add_message(history, capacity, message) ==
    LET pushed == Append(history, message)
    IN  IF Len(pushed) > capacity
        THEN Drain(pushed, Len(pushed) - capacity)
        ELSE pushed

\* ChatManager::len, ChatManager::get_messages
ChatLen == Len(chat_messages)

get_messages == chat_messages

\* ChatManager::new
InitChat ==
    /\ chat_messages = << >>
    /\ max_messages = 1000
    /\ added = << >>

(***************************************************************************)
(* Controlled rooms: utils (parse_controlled_room_input,                   *)
(* is_controlled_room, strip_control_password) and AppState                *)
(*                                                                         *)
(* A room name is a sequence of words; what the user types for the room is *)
(* the name, optionally followed by ":" and the control password.          *)
(***************************************************************************)
\* what connect_to_server may be given for the room
RoomInputs == {<<"lobby">>, <<"vip", ":", "secret">>}

\* the index of the first ":" of a room input, 0 when it has none
Colon(input) ==
    IF \E i \in DOMAIN input : input[i] = ":"
    THEN CHOOSE i \in DOMAIN input :
            /\ input[i] = ":"
            /\ \A j \in 1..(i - 1) : input[j] /= ":"
    ELSE 0

\* parse_controlled_room_input: name[:password] is split into the canonical
\* room name and the optional control password
parse_controlled_room_input(input) ==
    IF Colon(input) = 0
    THEN [room |-> input, password |-> None]
    ELSE [room |-> SubSeq(input, 1, Colon(input) - 1),
          password |-> Some(SubSeq(input, Colon(input) + 1, Len(input)))]

\* the rooms the server creates on request as controlled rooms
CreatedRooms == {<<"managed">>}

\* is_controlled_room: a room whose join name carries a control password,
\* or one the server created as a controlled room
is_controlled_room(name) ==
    \/ \E input \in RoomInputs :
          /\ parse_controlled_room_input(input).room = name
          /\ parse_controlled_room_input(input).password /= None
    \/ name \in CreatedRooms

\* strip_control_password: the suffix is kept as it was written
strip_control_password(password) == password

\* the room of a session that was given no control password
Lobby == <<"lobby">>

\* HashMap::new, HashMap::insert and HashMap::get on the password map, held
\* as the set of its entries
NoPasswords == {}

Insert(map, key, value) ==
    {entry \in map : entry.key /= key} \cup {[key |-> key, value |-> value]}

Get(map, key) ==
    IF \E entry \in map : entry.key = key
    THEN Some((CHOOSE entry \in map : entry.key = key).value)
    ELSE None

\* format!("{}:{}", room, password)
RoomEntry(name, password) == name \o <<":">> \o password

\* store_control_password with persist, config.user.autosave_joins_to_list
\* on (its default) and a configuration that can be saved: the password map
\* and the room list afterwards
store_control_password(passwords, rooms, name, password) ==
    LET stripped == strip_control_password(password)
        entry == RoomEntry(name, stripped)
    IN  IF stripped = << >>
        THEN [passwords |-> passwords, room_list |-> rooms]
        ELSE [passwords |-> Insert(passwords, name, stripped),
              room_list |-> IF \E i \in DOMAIN rooms : rooms[i] = entry
                            THEN rooms
                            ELSE Append(rooms, entry)]

\* AppState::new and a session in a room that was joined without a control
\* password
InitControl ==
    /\ room = Lobby
    /\ controlled_room_passwords = NoPasswords
    /\ last_control_password_attempt = None
    /\ room_list = << >>


\* MpvIpc::new with no MPV attached: no command sent, no task spawned
InitMpv ==
    /\ next_request_id = 1
    /\ pending_requests = {}
    /\ mpv_cmd_rx = << >>
    /\ mpv_writer = "terminated"
    /\ mpv_reader = "terminated"
    /\ mpv_open = FALSE
    /\ mpv_inbox = << >>
    /\ mpv_lines = << >>
    /\ mpv_answers = 0
    /\ mpv_calls = << >>

\* AppState::new: no task spawned; the first connect_to_server is under way
InitSessions ==
    /\ old_loops = 0
    /\ warning_tasks = << >>
    /\ connects = 1

\* no file has ended
InitEof ==
    /\ mpv_events = << >>
    /\ eof_log = << >>
    /\ files_ended = 0

\* nobody has changed the pause state or called update_playlist
InitUser ==
    /\ unpaused_by = "none"
    /\ update_log = << >>

InitExtra == InitMpv /\ InitSessions /\ InitEof /\ InitUser

\* AppState::new and a pump that has not ticked: the player has no file, the
\* flags are down, config.user.unpause_action is its default
InitPumpIdle ==
    /\ player_file = None
    /\ player_duration = None
    /\ player_position = None
    /\ pending_file = None
    /\ pending_duration = None
    /\ last_sent = None
    /\ eof_sent = FALSE
    /\ suppress_next_file_update = FALSE
    /\ suppress_unpause_check = FALSE
    /\ unpause_action = "IfOthersReady"
    /\ pump_ticks = 0
    /\ last_tick = None
    /\ server_loaded = None
    /\ list_progress = None
    /\ lists_handled = 0

\* AppState::new: the pump's state with no player attached
InitPump == InitPumpIdle /\ InitExtra

\* Playlist::new
InitPlaylist ==
    /\ items = << >>
    /\ current_index = None
    /\ last_playlist_call = None

(***************************************************************************)
(* commands/connection.rs: the ignoring-on-the-fly counters                *)
(***************************************************************************)
IgnoringOnTheFlyState(server, client) == [server |-> server, client |-> client]

\* network/messages.rs IgnoringInfo { server: Option<u32>, client: Option<u32> }
IgnoringInfo(server, client) == [server |-> server, client |-> client]

Counters == 0..MaxCounter

OptCounters == {None} \cup {Some(n) : n \in Counters}

\* the playstates a caller may supply: PlayState { position, paused }
PlayStates == {[position |-> p, paused |-> b] : p \in 0..1, b \in BOOLEAN}

OptPlayStates == {None} \cup {Some(ps) : ps \in PlayStates}

\* ping.latencyCalculation values the server may send
Latencies == 1..2

OptLatencies == {None} \cup {Some(l) : l \in Latencies}

\* update_ignoring_on_the_fly
update_ignoring_on_the_fly(local, ignoring) ==
    IF IsSome(ignoring.server)
    THEN IgnoringOnTheFlyState(Unwrap(ignoring.server), 0)
    ELSE IF IsSome(ignoring.client) /\ Unwrap(ignoring.client) = local.client
         THEN IgnoringOnTheFlyState(local.server, 0)
    ELSE local

\* ProtocolMessage::State { playstate, ping, ignoringOnTheFly }
StateMessage(playstate, ping, ignoring_info) ==
    [type |-> "State", playstate |-> playstate, ping |-> ping,
     ignoring_on_the_fly |-> ignoring_info]

\* PingInfo of a reply: latencyCalculation echoed (the client's own timestamp
\* and RTT estimate are wall-clock floats, left out)
PingInfo(latency_calculation) == [latency_calculation |-> latency_calculation]

\* send_state_message that suppresses the playstate whenever the client
\* counter is set, whatever the server counter
send_state_message_client_only(ignoring, playstate, latency_calculation, state_change) ==
    LET client == IF state_change THEN ignoring.client + 1 ELSE ignoring.client
        ignoring_info ==
            IF ignoring.server /= 0 \/ client /= 0
            THEN Some(IgnoringInfo(
                     IF ignoring.server /= 0 THEN Some(ignoring.server) ELSE None,
                     IF client /= 0 THEN Some(client) ELSE None))
            ELSE None
    IN  [message |-> StateMessage(IF ignoring.client = 0 THEN playstate ELSE None,
                                  Some(PingInfo(latency_calculation)), ignoring_info),
         ignoring |-> IgnoringOnTheFlyState(0, client)]

\* send_state_message that never resets the server counter after sending
send_state_message_no_reset(ignoring, playstate, latency_calculation, state_change) ==
    LET client_ignore_is_not_set == ignoring.client = 0 \/ ignoring.server /= 0
        client == IF state_change THEN ignoring.client + 1 ELSE ignoring.client
        ignoring_info ==
            IF ignoring.server /= 0 \/ client /= 0
            THEN Some(IgnoringInfo(
                     IF ignoring.server /= 0 THEN Some(ignoring.server) ELSE None,
                     IF client /= 0 THEN Some(client) ELSE None))
            ELSE None
    IN  [message |-> StateMessage(IF client_ignore_is_not_set THEN playstate ELSE None,
                                  Some(PingInfo(latency_calculation)), ignoring_info),
         ignoring |-> IgnoringOnTheFlyState(ignoring.server, client)]

\* send_state_message, up to the hand-over to Connection::send: the message
\* it builds and the counters it leaves.  (saturating_add saturates at
\* u32::MAX, far beyond MaxCounter.)
send_state_message(ignoring, playstate, latency_calculation, state_change) ==
    LET client_ignore_is_not_set == ignoring.client = 0 \/ ignoring.server /= 0
        client == IF state_change THEN ignoring.client + 1 ELSE ignoring.client
        ignoring_info ==
            IF ignoring.server /= 0 \/ client /= 0
            THEN Some(IgnoringInfo(
                     IF ignoring.server /= 0 THEN Some(ignoring.server) ELSE None,
                     IF client /= 0 THEN Some(client) ELSE None))
            ELSE None
    IN  [message |-> StateMessage(IF client_ignore_is_not_set THEN playstate ELSE None,
                                  Some(PingInfo(latency_calculation)), ignoring_info),
         ignoring |-> IgnoringOnTheFlyState(0, client)]

\* a caller inside the crate runs update_ignoring_on_the_fly
IgnUpdate ==
    /\ \E server \in OptCounters, client \in OptCounters :
          ignoring_on_the_fly' =
              update_ignoring_on_the_fly(ignoring_on_the_fly, IgnoringInfo(server, client))
    /\ UNCHANGED <<playlistVars, last_state_call, sessionVars>>

\* a caller inside the crate runs send_state_message
IgnSendState ==
    \E playstate \in OptPlayStates, latency_calculation \in OptLatencies,
       state_change \in BOOLEAN :
        /\ state_change => ignoring_on_the_fly.client < MaxCounter
        /\ LET sent == send_state_message(ignoring_on_the_fly, playstate,
                                          latency_calculation, state_change)
           IN  /\ ignoring_on_the_fly' = sent.ignoring
               /\ last_state_call' = Some([ignoring |-> ignoring_on_the_fly,
                                           playstate |-> playstate,
                                           latency_calculation |-> latency_calculation,
                                           state_change |-> state_change,
                                           message |-> sent.message])
        /\ UNCHANGED <<playlistVars, sessionVars>>

(***************************************************************************)
(* The server session: network/connection.rs, network/protocol.rs and      *)
(* commands/connection.rs                                                  *)
(***************************************************************************)
\* lines the worker reads from the server in one session
MaxLines == 2
\* State messages the player state pump sends in one session
MaxPumpSends == 1

\* ProtocolMessage::Hello { last_hello }
HelloMessage == [type |-> "Hello"]

\* ProtocolMessage::TLS { startTLS }
TLSMessage(start_tls) == [type |-> "TLS", start_tls |-> start_tls]

\* ProtocolMessage::Error { message }; the text is a sequence of words
ErrorMessage(message) == [type |-> "Error", message |-> message]

\* ProtocolMessage::List { List: None }
ListRequest == [type |-> "List"]

\* send_ready_state(state, true, false): Set.ready
ReadyMessage == [type |-> "Set", is_ready |-> TRUE, manually_initiated |-> FALSE]

\* str::contains on a text held as a sequence of words
Contains(text, word) == \E i \in DOMAIN text : text[i] = word

\* LocalPlaybackState::new: position 0.0, paused, initialized
LocalPlayState == [position |-> 0, paused |-> TRUE]

\* what the pump reads from the player: to_play_state
PumpPlayState == [position |-> 1, paused |-> FALSE]

\* the playstate the server asserts
ServerPlayState == [position |-> 1, paused |-> FALSE]

ErrorTexts == {<<"startTLS", "refused">>, <<"room", "full">>}

\* ignoringOnTheFly.server values the server sends
ServerCounters == {1, 2}

\* the State messages the server may write
ServerStateMessages ==
    {StateMessage(ps, ping, ign) :
        ps \in {None, Some(ServerPlayState)},
        ping \in {None, Some(PingInfo(Some(1)))},
        ign \in {None} \cup {Some(IgnoringInfo(Some(n), None)) : n \in ServerCounters}}

\* the messages of the opening handshake the server may write
ServerHandshakeMessages ==
    {TLSMessage(Some(a)) : a \in {"true", "false"}}
    \cup {ErrorMessage(t) : t \in ErrorTexts}
    \cup {HelloMessage}

\* a line on the stream: a well-formed message, text that is no JSON, or a
\* JSON object with an unknown top-level key
Lines(messages) ==
    {[kind |-> "message", message |-> m] : m \in messages}
    \cup {[kind |-> "malformed"], [kind |-> "unknown_tag"]}

\* SyncplayCodec::decode of a non-empty line: serde_json::from_str(..)? ends
\* it with Err for text that does not parse and (ProtocolMessage's
\* Deserialize) for an unknown top-level key
decode(line) ==
    IF line.kind = "message"
    THEN [ok |-> TRUE, message |-> line.message]
    ELSE [ok |-> FALSE]

\* ConnectionCommand
SendCommand(message) == [cmd |-> "Send", message |-> message]
UpgradeTlsCommand == [cmd |-> "UpgradeTls"]
DisconnectCommand == [cmd |-> "Disconnect"]

\* mpsc::UnboundedSender::send succeeds while the receiver (owned by the
\* worker task) is alive; Connection::send needs tx to be Some
CanSend == tx /\ worker = "running"

\* the channel after tx.send of each message of msgs, taken from the back
connection_send_lifo(queue, msgs) ==
    [i \in 1..Len(msgs) |-> SendCommand(msgs[i])] \o queue

\* Connection::send for each message of msgs: the channel after tx.send
connection_send(queue, msgs) ==
    queue \o [i \in 1..Len(msgs) |-> SendCommand(msgs[i])]

\* the messages handed to the connection by an action, if it can take them
Sending(msgs) ==
    IF CanSend /\ msgs /= << >>
    THEN /\ cmd_rx' = connection_send(cmd_rx, msgs)
         /\ sends' = sends \o msgs
    ELSE UNCHANGED <<cmd_rx, sends>>

\* send_hello without its look at hello_sent
send_hello_unguarded(sent, hello, conn) ==
    IF hello = None THEN << >>
    ELSE IF conn = None THEN << >>
    ELSE IF ~CanSend THEN << >>
    ELSE <<HelloMessage>> \o (IF ready_at_start THEN <<ReadyMessage>> ELSE << >>)

\* send_hello with the connection looked up first
send_hello(sent, hello, conn) ==
    IF sent THEN << >>
    ELSE IF hello = None THEN << >>
    ELSE IF conn = None THEN << >>
    ELSE IF ~CanSend THEN << >>
    ELSE <<HelloMessage>> \o (IF ready_at_start THEN <<ReadyMessage>> ELSE << >>)

\* a call of send_hello at `site`, after `published` was published; the call
\* that hands Hello over is remembered with the worker's transport at that time
SendHello(site, sent, hello, conn, published) ==
    LET msgs == send_hello(sent, hello, conn)
    IN  /\ Sending(msgs)
        /\ hello_sent' = (sent \/ msgs /= << >>)
        /\ hello_origin' = IF msgs /= << >>
                           THEN Some([site |-> site, events |-> published,
                                      transport |-> transport])
                           ELSE hello_origin

TlsStatus(status) == [event |-> "tls-status-changed", status |-> status]

ChatError(message) ==
    [event |-> "chat-message-received", message |-> message, messageType |-> "error"]

\* emit_system_message
SystemMessage(message) ==
    [event |-> "chat-message-received", message |-> message, messageType |-> "system"]

\* ConnectionStatusEvent { connected, .. }
ConnectionStatus(connected) ==
    [event |-> "connection-status-changed", connected |-> connected]

\* user-list-updated with no users, playlist-updated with no items
UserListEmptied == [event |-> "user-list-updated"]
PlaylistEmptied == [event |-> "playlist-updated"]

DisconnectedFromServer == <<"Disconnected", "from", "server">>

\* the autoplay countdown switched off
AutoplayOff == [countdown_active |-> FALSE, countdown_remaining |-> 0]

\* RoomWarningState::default
RoomWarningDefault == [alone |-> FALSE, file_differences |-> None, not_ready |-> None]

\* what both disconnect paths clear: users, playlist, file, ready, the
\* autoplay countdown and the room warnings
ClearSession ==
    /\ users' = {}
    /\ items' = clear(ThePlaylist).items
    /\ current_index' = clear(ThePlaylist).current_index
    /\ Uncalled
    /\ file' = None
    /\ ready' = FALSE
    /\ autoplay' = AutoplayOff
    /\ room_warning_state' = RoomWarningDefault
    /\ room_warning_task_running' = FALSE

\* build_local_playstate (dont_slow_down_with_me off, its default; the local
\* playback state is never moved, so compute_seeked is false)
build_local_playstate(global_update) ==
    IF ~global_update THEN None ELSE Some(LocalPlayState)

\* Connection::connect: the stream is opened and the worker spawned
ConnectTcp ==
    /\ connect_pc = "start"
    /\ connect_pc' = "tcp_connected"
    /\ transport' = "Plain"
    /\ worker' = "running"
    /\ tx' = TRUE
    /\ UNCHANGED <<playlistVars, ignoringVars, appVars, configVars, clientVars, cmd_rx, msg_rx,
                   upgrade_response, serverVars, loop_pc, current_message, pump_sends,
                   historyVars>>

\* start_room_warning_loop: unless the flag says a loop is running, the
\* flag is raised and a task spawned
start_room_warning_loop ==
    IF room_warning_task_running
    THEN UNCHANGED <<room_warning_task_running, warning_tasks>>
    ELSE /\ room_warning_task_running' = TRUE
         /\ warning_tasks' = Append(warning_tasks, "sleeping")

\* connect_to_server after Connection::connect returned Ok: the Hello is
\* stashed, TLS is asked for or Hello sent, the connection is stored and the
\* message loop spawned
ConnectSetup ==
    /\ connect_pc = "tcp_connected"
    /\ connect_pc' = "done"
    /\ last_hello' = Some(HelloMessage)
    /\ IF tls_available
       THEN IF CanSend
            THEN /\ Sending(<<TLSMessage(Some("send"))>>)
                 /\ events' = events \o <<TlsStatus("pending"), ConnectionStatus(TRUE)>>
                 /\ hello_sent' = FALSE
                 /\ UNCHANGED hello_origin
            ELSE /\ events' = Append(events, ConnectionStatus(TRUE))
                 /\ SendHello("connect", FALSE, last_hello', connection, events)
       ELSE /\ events' = events \o <<TlsStatus("unsupported"), ConnectionStatus(TRUE)>>
            /\ SendHello("connect", FALSE, last_hello', connection,
                         Append(events, TlsStatus("unsupported")))
    /\ connection' = Some("connection")
    /\ start_room_warning_loop
    /\ loop_pc' = "idle"
    /\ UNCHANGED <<playlistVars, ignoringVars, last_latency_calculation,
                   last_global_update, configVars, users, file, ready, autoplay,
                   room_warning_state, autoplayVars, syncVars, chatVars, controlVars,
                   pumpVars, suppress_unpause_check, listVars, mpvVars, eofVars, userVars, old_loops,
                   connects, tx, msg_rx, transport, worker,
                   upgrade_response, serverVars, current_message, pump_sends,
                   state_log, worker_exit, read_log, wire>>

\* the worker leaves its loop: the task's transport, cmd_rx and msg_tx are
\* dropped, and with cmd_rx every oneshot sender still queued in it
WorkerExit(reason) ==
    /\ worker' = "exited"
    /\ worker_exit' = reason
    /\ cmd_rx' = << >>
    /\ upgrade_response' = IF upgrade_response = "pending" THEN "dropped"
                           ELSE upgrade_response

\* Transport::upgrade_tls; handshake_ok is the outcome of upgrade_to_tls
upgrade_tls(t, handshake_ok) ==
    IF t = "Plain"
    THEN IF handshake_ok
         THEN [transport |-> "Tls", result |-> "ok"]
         ELSE [transport |-> "Empty", result |-> "err"]
    ELSE IF t = "Tls" THEN [transport |-> "Tls", result |-> "ok"]
    ELSE [transport |-> "Empty", result |-> "err"]

\* worker loop, cmd_rx.recv() gave ConnectionCommand::Send
WorkerSend ==
    /\ worker = "running"
    /\ cmd_rx /= << >>
    /\ Head(cmd_rx).cmd = "Send"
    /\ IF transport = "Empty"
       THEN /\ WorkerExit("send_error")
            /\ UNCHANGED wire
       ELSE /\ wire' = Append(wire, [message |-> Head(cmd_rx).message, via |-> transport])
            /\ cmd_rx' = Tail(cmd_rx)
            /\ UNCHANGED <<worker, worker_exit, upgrade_response>>
    /\ UNCHANGED <<playlistVars, ignoringVars, appVars, configVars, clientVars, tx, msg_rx,
                   transport, serverVars, taskVars, sends, hello_origin, state_log,
                   read_log>>

\* worker loop, cmd_rx.recv() gave ConnectionCommand::UpgradeTls
WorkerUpgradeTls ==
    /\ worker = "running"
    /\ cmd_rx /= << >>
    /\ Head(cmd_rx).cmd = "UpgradeTls"
    /\ \E handshake_ok \in BOOLEAN :
          LET up == upgrade_tls(transport, handshake_ok)
          IN  /\ transport' = up.transport
              /\ upgrade_response' = up.result
    /\ cmd_rx' = Tail(cmd_rx)
    /\ UNCHANGED <<playlistVars, ignoringVars, appVars, configVars, clientVars, tx, msg_rx,
                   worker, serverVars, taskVars, historyVars>>

\* worker loop, cmd_rx.recv() gave ConnectionCommand::Disconnect
WorkerDisconnect ==
    /\ worker = "running"
    /\ cmd_rx /= << >>
    /\ Head(cmd_rx).cmd = "Disconnect"
    /\ WorkerExit("disconnect")
    /\ UNCHANGED <<playlistVars, ignoringVars, appVars, configVars, clientVars, tx, msg_rx,
                   transport, serverVars, taskVars, sends, hello_origin, state_log,
                   read_log, wire>>

\* worker loop, transport.next_message() gave Some(Ok(msg)) or Some(Err(e)):
\* the next line of the server, one of `lines`, is framed and decoded
ReceiveUpTo(lines, most) ==
    /\ worker = "running"
    /\ transport /= "Empty"
    /\ lines_read < most
    /\ lines_read' = lines_read + 1
    /\ \E line \in lines :
          /\ read_log' = Append(read_log, line)
          /\ LET decoded == decode(line)
             IN  IF decoded.ok
                 THEN /\ msg_rx' = Append(msg_rx, decoded.message)
                      /\ UNCHANGED <<worker, worker_exit, cmd_rx, upgrade_response>>
                 ELSE /\ WorkerExit("decode_error")
                      /\ UNCHANGED msg_rx
    /\ UNCHANGED <<playlistVars, ignoringVars, appVars, configVars, clientVars, tx, transport,
                   taskVars, sends, hello_origin, state_log, wire>>

\* the worker reads one of `lines` in a session of at most MaxLines lines
Receive(lines) == ReceiveUpTo(lines, MaxLines)

\* the lines of a server in the opening handshake
ServerHandshakeLines == Lines(ServerHandshakeMessages)

\* the lines of a server broadcasting State
ServerStateLines == Lines(ServerStateMessages)

\* the worker reads a line while the server is in the opening handshake
WorkerReceive == Receive(ServerHandshakeLines)

\* the worker reads a line while the server is broadcasting State
WorkerReceiveState == Receive(ServerStateLines)

\* worker loop, transport.next_message() gave None: the server closed the
\* stream, or the transport is Transport::Empty
WorkerEof ==
    /\ worker = "running"
    /\ WorkerExit(IF transport = "Empty" THEN "transport_empty" ELSE "eof")
    /\ UNCHANGED <<playlistVars, ignoringVars, appVars, configVars, clientVars, tx, msg_rx,
                   transport, serverVars, taskVars, sends, hello_origin, state_log,
                   read_log, wire>>

\* the reply of the State arm of handle_server_message: send_state_message
\* with build_local_playstate and the received latencyCalculation
ReplyToState(message, ignoring, global_update) ==
    LET latency_calculation ==
            IF IsSome(message.ping) THEN Unwrap(message.ping).latency_calculation
            ELSE None
        playstate == build_local_playstate(global_update)
        sent == send_state_message(ignoring, playstate, latency_calculation, FALSE)
        connected == connection /= None /\ CanSend
    IN  /\ ignoring_on_the_fly' = sent.ignoring
        /\ last_state_call' = Some([ignoring |-> ignoring,
                                    playstate |-> playstate,
                                    latency_calculation |-> latency_calculation,
                                    state_change |-> FALSE,
                                    message |-> sent.message])
        /\ IF connected THEN Sending(<<sent.message>>) ELSE UNCHANGED <<cmd_rx, sends>>
        /\ state_log' = Append(state_log,
                               [message |-> message,
                                connected |-> connected,
                                reply |-> IF connected THEN Some(sent.message) ELSE None])

\* the State arm that leaves the handler when no player is attached
HandleStateReturningEarly ==
    /\ loop_pc = "idle"
    /\ msg_rx /= << >>
    /\ Head(msg_rx).type = "State"
    /\ msg_rx' = Tail(msg_rx)
    /\ LET message == Head(msg_rx)
           ignoring == IF IsSome(message.ignoring_on_the_fly)
                       THEN update_ignoring_on_the_fly(ignoring_on_the_fly,
                                                       Unwrap(message.ignoring_on_the_fly))
                       ELSE ignoring_on_the_fly
       IN  /\ last_latency_calculation' =
                  IF IsSome(message.ping) THEN Unwrap(message.ping).latency_calculation
                  ELSE last_latency_calculation
           /\ last_global_update' = (last_global_update \/ IsSome(message.playstate))
           /\ IF IsSome(message.playstate) /\ player
              THEN /\ ignoring_on_the_fly' = ignoring
                   /\ loop_pc' = "state_update"
                   /\ current_message' = Some(message)
                   /\ UNCHANGED <<last_state_call, cmd_rx, sends, state_log>>
              ELSE IF IsSome(message.playstate)
              THEN /\ ignoring_on_the_fly' = ignoring
                   /\ UNCHANGED <<last_state_call, cmd_rx, sends, state_log, loop_pc,
                                  current_message>>
              ELSE /\ ReplyToState(message, ignoring, last_global_update')
                   /\ UNCHANGED <<loop_pc, current_message>>
    /\ UNCHANGED <<playlistVars, connection, last_hello, hello_sent, events, configVars, clientVars,
                   tx, transport, worker, upgrade_response, serverVars, connect_pc,
                   pump_sends, hello_origin, worker_exit, read_log, wire>>

\* handle_server_message, State arm: the counters and the latency stash are
\* updated; with a playstate and a player attached handle_state_update
\* suspends on the player; otherwise the reply is sent at once
HandleState ==
    /\ loop_pc = "idle"
    /\ msg_rx /= << >>
    /\ Head(msg_rx).type = "State"
    /\ msg_rx' = Tail(msg_rx)
    /\ LET message == Head(msg_rx)
           ignoring == IF IsSome(message.ignoring_on_the_fly)
                       THEN update_ignoring_on_the_fly(ignoring_on_the_fly,
                                                       Unwrap(message.ignoring_on_the_fly))
                       ELSE ignoring_on_the_fly
       IN  /\ last_latency_calculation' =
                  IF IsSome(message.ping) THEN Unwrap(message.ping).latency_calculation
                  ELSE last_latency_calculation
           /\ last_global_update' = (last_global_update \/ IsSome(message.playstate))
           /\ IF IsSome(message.playstate) /\ player
              THEN /\ ignoring_on_the_fly' = ignoring
                   /\ loop_pc' = "state_update"
                   /\ current_message' = Some(message)
                   /\ UNCHANGED <<last_state_call, cmd_rx, sends, state_log>>
              ELSE /\ ReplyToState(message, ignoring, last_global_update')
                   /\ UNCHANGED <<loop_pc, current_message>>
    /\ UNCHANGED <<playlistVars, connection, last_hello, hello_sent, events, configVars, clientVars,
                   tx, transport, worker, upgrade_response, serverVars, connect_pc,
                   pump_sends, hello_origin, worker_exit, read_log, wire>>

\* handle_server_message, State arm, after handle_state_update returned
HandleStateResume ==
    /\ loop_pc = "state_update"
    /\ ReplyToState(Unwrap(current_message), ignoring_on_the_fly, last_global_update)
    /\ loop_pc' = "idle"
    /\ current_message' = None
    /\ UNCHANGED <<playlistVars, appVars, configVars, clientVars, tx, msg_rx, transport, worker,
                   upgrade_response, serverVars, connect_pc, pump_sends, hello_origin,
                   worker_exit, read_log, wire>>

\* handle_tls_message that sends Hello as soon as the server accepts,
\* without upgrading the transport
HandleTlsHelloBeforeUpgrade ==
    /\ loop_pc = "idle"
    /\ msg_rx /= << >>
    /\ Head(msg_rx).type = "TLS"
    /\ msg_rx' = Tail(msg_rx)
    /\ LET answer == Head(msg_rx).start_tls
       IN  IF answer = None \/ connection = None
           THEN UNCHANGED <<events, cmd_rx, sends, hello_sent, hello_origin>>
           ELSE IF answer = Some("true")
           THEN /\ events' = Append(events, TlsStatus("enabled"))
                /\ SendHello("tls_true", hello_sent, last_hello, connection, events')
           ELSE /\ events' = Append(events, TlsStatus("unsupported"))
                /\ SendHello("tls_false", hello_sent, last_hello, connection, events')
    /\ UNCHANGED <<playlistVars, ignoringVars, connection, last_hello,
                   last_latency_calculation, last_global_update, configVars, clientVars, tx,
                   transport, worker, upgrade_response, serverVars, connect_pc, loop_pc,
                   current_message, pump_sends, state_log, worker_exit, read_log, wire>>

\* handle_tls_message up to the await of Connection::upgrade_tls
HandleTls ==
    /\ loop_pc = "idle"
    /\ msg_rx /= << >>
    /\ Head(msg_rx).type = "TLS"
    /\ LET answer == Head(msg_rx).start_tls
       IN  IF answer = None \/ connection = None
           THEN /\ msg_rx' = Tail(msg_rx)
                /\ UNCHANGED <<events, cmd_rx, sends, hello_sent, hello_origin, loop_pc,
                               upgrade_response>>
           ELSE IF answer = Some("true")
           THEN IF CanSend
                THEN \* Connection::upgrade_tls queued the command and awaits the oneshot
                     /\ msg_rx' = Tail(msg_rx)
                     /\ cmd_rx' = Append(cmd_rx, UpgradeTlsCommand)
                     /\ upgrade_response' = "pending"
                     /\ loop_pc' = "tls_upgrade"
                     /\ UNCHANGED <<events, sends, hello_sent, hello_origin>>
                ELSE \* Connection::upgrade_tls failed at once: not connected
                     /\ msg_rx' = Tail(msg_rx)
                     /\ events' = Append(events, TlsStatus("unsupported"))
                     /\ SendHello("tls_failed", hello_sent, last_hello, connection, events')
                     /\ UNCHANGED <<loop_pc, upgrade_response>>
           ELSE IF answer = Some("false")
           THEN /\ msg_rx' = Tail(msg_rx)
                /\ events' = Append(events, TlsStatus("unsupported"))
                /\ SendHello("tls_false", hello_sent, last_hello, connection, events')
                /\ UNCHANGED <<loop_pc, upgrade_response>>
           ELSE /\ msg_rx' = Tail(msg_rx)
                /\ UNCHANGED <<events, cmd_rx, sends, hello_sent, hello_origin, loop_pc,
                               upgrade_response>>
    /\ UNCHANGED <<playlistVars, ignoringVars, connection, last_hello,
                   last_latency_calculation, last_global_update, configVars, clientVars, tx,
                   transport, worker, serverVars, connect_pc, current_message,
                   pump_sends, state_log, worker_exit, read_log, wire>>

\* handle_tls_message after Connection::upgrade_tls returned
HandleTlsResume ==
    /\ loop_pc = "tls_upgrade"
    /\ upgrade_response \in {"ok", "err", "dropped"}
    /\ IF upgrade_response = "ok"
       THEN /\ events' = Append(events, TlsStatus("enabled"))
            /\ SendHello("tls_true", hello_sent, last_hello, connection, events')
       ELSE /\ events' = Append(events, TlsStatus("unsupported"))
            /\ SendHello("tls_failed", hello_sent, last_hello, connection, events')
    /\ upgrade_response' = "none"
    /\ loop_pc' = "idle"
    /\ UNCHANGED <<playlistVars, ignoringVars, connection, last_hello,
                   last_latency_calculation, last_global_update, configVars, clientVars, tx, msg_rx,
                   transport, worker, serverVars, connect_pc, current_message,
                   pump_sends, state_log, worker_exit, read_log, wire>>

\* handle_server_message, Error arm
HandleError ==
    /\ loop_pc = "idle"
    /\ msg_rx /= << >>
    /\ Head(msg_rx).type = "Error"
    /\ msg_rx' = Tail(msg_rx)
    /\ events' = Append(events, ChatError(Head(msg_rx).message))
    /\ IF Contains(Head(msg_rx).message, "startTLS")
       THEN SendHello("error", hello_sent, last_hello, connection, events')
       ELSE UNCHANGED <<cmd_rx, sends, hello_sent, hello_origin>>
    /\ UNCHANGED <<playlistVars, ignoringVars, connection, last_hello,
                   last_latency_calculation, last_global_update, configVars, clientVars, tx,
                   transport, worker, upgrade_response, serverVars, connect_pc, loop_pc,
                   current_message, pump_sends, state_log, worker_exit, read_log, wire>>

\* ClientState::get_username: the name connect_to_server was given
LocalUsername == "me"

\* send_controller_auth: Set.controllerAuth { room, password }
ControllerAuthRequest(name, password) ==
    [type |-> "Set",
     controller_auth |-> [room |-> Some(name), password |-> Some(password),
                          user |-> None, success |-> None]]

\* reidentify_as_controller in room `name`: nothing for a room that is not
\* controlled or has no stored password; otherwise a system chat line, the
\* attempt remembered and, with a connection, Set.controllerAuth
reidentify_as_controller(name, passwords, attempt, conn) ==
    IF ~is_controlled_room(name) \/ Get(passwords, name) = None
    THEN [events |-> << >>, attempt |-> attempt, messages |-> << >>]
    ELSE LET password == Unwrap(Get(passwords, name))
         IN  [events |-> <<SystemMessage(<<"Identifying", "as", "room", "operator",
                                           "with", "password">> \o password)>>,
              attempt |-> Some(password),
              messages |-> IF conn /= None
                           THEN <<ControllerAuthRequest(name, password)>>
                           ELSE << >>]

\* a Hello arm that identifies before it asks for the user list
HelloRepliesIdentifyingFirst(conn, identify) ==
    identify.messages \o (IF conn /= None THEN <<ListRequest>> ELSE << >>)

\* handle_server_message, Hello arm: what is handed to the connection, the
\* List request and then what reidentify_as_controller sends
HelloReplies(conn, identify) ==
    (IF conn /= None THEN <<ListRequest>> ELSE << >>) \o identify.messages

\* handle_server_message, Hello arm (the server's Hello carries no motd): two
\* system chat lines, the user list is requested, reidentify_as_controller
HandleHello ==
    /\ loop_pc = "idle"
    /\ msg_rx /= << >>
    /\ Head(msg_rx).type = "Hello"
    /\ msg_rx' = Tail(msg_rx)
    /\ LET identify == reidentify_as_controller(room, controlled_room_passwords,
                                                last_control_password_attempt,
                                                connection)
       IN  /\ events' = events
                          \o <<SystemMessage(<<"Hello", LocalUsername>>),
                               SystemMessage(<<"Successfully", "connected", "to",
                                               "server">>)>>
                          \o identify.events
           /\ last_control_password_attempt' = identify.attempt
           /\ IF HelloReplies(connection, identify) /= << >>
              THEN Sending(HelloReplies(connection, identify))
              ELSE UNCHANGED <<cmd_rx, sends>>
    /\ UNCHANGED <<playlistVars, ignoringVars, connection, last_hello, hello_sent,
                   last_latency_calculation, last_global_update, configVars, roomVars,
                   autoplayVars, syncVars, chatVars, pumpVars, suppress_unpause_check, listVars, extraVars,
                   room, controlled_room_passwords, room_list, tx, transport, worker, upgrade_response, serverVars,
                   taskVars, hello_origin, state_log, worker_exit, read_log, wire>>

\* a message loop that ends without running handle_connection_closed
MessageLoopEndWithoutCleanup ==
    /\ loop_pc = "idle"
    /\ msg_rx = << >>
    /\ worker = "exited"
    /\ loop_pc' = "closed"
    /\ UNCHANGED <<playlistVars, ignoringVars, appVars, configVars, clientVars,
                   connVars, serverVars, connect_pc, current_message, pump_sends,
                   historyVars>>

\* the message loop ends when every sender of the message channel is gone
\* and the channel is drained: handle_connection_closed
MessageLoopEnd ==
    /\ loop_pc = "idle"
    /\ msg_rx = << >>
    /\ worker = "exited"
    /\ loop_pc' = "closed"
    /\ IF connection = None
       THEN UNCHANGED <<connection, events, playlistVars, roomVars>>
       ELSE /\ connection' = None
            /\ ClearSession
            /\ events' = events \o <<UserListEmptied, PlaylistEmptied,
                                      ConnectionStatus(FALSE), TlsStatus("unknown"),
                                      SystemMessage(DisconnectedFromServer)>>
    /\ UNCHANGED <<ignoringVars, last_hello, hello_sent, last_latency_calculation,
                   last_global_update, configVars, restVars, connVars, serverVars,
                   connect_pc, current_message, pump_sends, historyVars>>

\* disconnect_from_server, called while a connection is stored:
\* Connection::disconnect queues Disconnect and drops tx
DisconnectFromServer ==
    /\ connect_pc = "done"
    /\ connection /= None
    /\ connection' = None
    /\ cmd_rx' = IF CanSend THEN Append(cmd_rx, DisconnectCommand) ELSE cmd_rx
    /\ tx' = FALSE
    /\ ClearSession
    /\ events' = events \o <<UserListEmptied, PlaylistEmptied,
                              ConnectionStatus(FALSE), TlsStatus("unknown")>>
    /\ UNCHANGED <<ignoringVars, last_hello, hello_sent, last_latency_calculation,
                   last_global_update, configVars, restVars, msg_rx, transport, worker,
                   upgrade_response, serverVars, taskVars, historyVars>>

\* spawn_player_state_loop, a tick on which should_send_state holds: the
\* pump hands its own State message to the connection
PumpSendState ==
    /\ player
    /\ connection /= None
    /\ pump_sends < MaxPumpSends
    /\ pump_sends' = pump_sends + 1
    /\ Sending(<<StateMessage(Some(PumpPlayState), None, None)>>)
    /\ UNCHANGED <<playlistVars, ignoringVars, appVars, configVars, clientVars, tx, msg_rx,
                   transport, worker, upgrade_response, serverVars, connect_pc, loop_pc,
                   current_message, hello_origin, state_log, worker_exit, read_log, wire>>

\* SyncplayConfig::default, no player attached, rustls finds the root store
InitDefaultConfig ==
    /\ player = FALSE
    /\ ready_at_start = FALSE
    /\ tls_available = TRUE
    /\ autoplay_enabled = FALSE

\* the configuration, the player and the local TLS support are whatever the
\* user's machine has
InitAnyConfig ==
    /\ player \in BOOLEAN
    /\ ready_at_start \in BOOLEAN
    /\ tls_available \in BOOLEAN
    /\ autoplay_enabled = FALSE

(***************************************************************************)
(* client/sync.rs: the synchronization engine.  Positions, ages, thresholds *)
(* and instants are counted in ticks of 0.05 s, in which every number of   *)
(* the source below is an integer: 0.1 s is 2 ticks, 0.25 s is 5, 1.5 s is *)
(* 30, 1.75 s is 35, 3.0 s is 60, 4.0 s is 80 and 5.0 s is 100.            *)
(***************************************************************************)
FASTFORWARD_EXTRA_TIME == 5

FASTFORWARD_RESET_THRESHOLD == 60

FASTFORWARD_BEHIND_THRESHOLD == 35

\* the thresholds SyncEngine::new gives the engine
seek_threshold_rewind == 80

seek_threshold_fastforward == 100

slowdown_threshold == 30

slowdown_reset_threshold == 2

\* slowdown_rate, in hundredths
slowdown_rate == 95

\* enum SyncAction
SyncNone == [action |-> "None"]

Seek(position) == [action |-> "Seek", position |-> position]

SetPaused(paused) == [action |-> "SetPaused", paused |-> paused]

Slowdown == [action |-> "Slowdown"]

ResetSpeed == [action |-> "ResetSpeed"]

\* struct SyncInputs
SyncInputs(local_position, local_paused, global_position, global_paused, message_age, do_seek, allow_fastforward) ==
    [local_position |-> local_position, local_paused |-> local_paused,
     global_position |-> global_position, global_paused |-> global_paused,
     message_age |-> message_age, do_seek |-> do_seek,
     allow_fastforward |-> allow_fastforward]

\* struct SyncEngine, its thresholds left at the values of SyncEngine::new
SyncEngine(slowdown_active, behind_first_detected, slow_on_desync, rewind_on_desync, fastforward_on_desync) ==
    [slowdown_active |-> slowdown_active,
     behind_first_detected |-> behind_first_detected,
     slow_on_desync |-> slow_on_desync,
     rewind_on_desync |-> rewind_on_desync,
     fastforward_on_desync |-> fastforward_on_desync]

\* SyncEngine::new
NewSyncEngine == SyncEngine(FALSE, None, TRUE, TRUE, TRUE)

\* SyncEngine::update_from_config, for the three switches of the preferences
update_from_config(engine, slow, dont_slow, rewind, fastforward) ==
    [engine EXCEPT !.slow_on_desync = slow /\ ~dont_slow,
                   !.rewind_on_desync = rewind,
                   !.fastforward_on_desync = fastforward]

\* f64::abs
Abs(x) == IF x < 0 THEN -x ELSE x

\* inputs.local_position - adjusted_global_position
AdjustedGlobalPosition(inputs) ==
    IF ~inputs.global_paused
    THEN inputs.global_position + inputs.message_age
    ELSE inputs.global_position

PositionDiff(inputs) == inputs.local_position - AdjustedGlobalPosition(inputs)

\* now.checked_duration_since(start).unwrap_or_default()
DurationSince(instant, start) == IF instant >= start THEN instant - start ELSE 0

\* calculate_sync_actions, the block that compares the positions: the
\* actions it pushes and the engine it leaves, from the engine it finds
SyncPosition(engine, inputs, instant) ==
    LET adjusted_global_position == AdjustedGlobalPosition(inputs)
        diff == PositionDiff(inputs)
    IN  IF engine.rewind_on_desync /\ diff > seek_threshold_rewind
        THEN [actions |-> <<Seek(adjusted_global_position)>>,
              engine |-> [engine EXCEPT !.slowdown_active = FALSE,
                                        !.behind_first_detected = None]]
        ELSE IF inputs.allow_fastforward /\ engine.fastforward_on_desync
        THEN IF diff < -FASTFORWARD_BEHIND_THRESHOLD
             THEN IF engine.behind_first_detected = None
                  THEN [actions |-> << >>,
                        engine |-> [engine EXCEPT
                                       !.behind_first_detected = Some(instant)]]
                  ELSE LET start == Unwrap(engine.behind_first_detected)
                           duration_behind == DurationSince(instant, start)
                       IN  IF /\ duration_behind >
                                    (seek_threshold_fastforward
                                        - FASTFORWARD_BEHIND_THRESHOLD)
                              /\ diff < -seek_threshold_fastforward
                           THEN [actions |->
                                    <<Seek(adjusted_global_position
                                             + FASTFORWARD_EXTRA_TIME)>>,
                                 engine |-> [engine EXCEPT
                                    !.slowdown_active = FALSE,
                                    !.behind_first_detected =
                                        Some(instant + FASTFORWARD_RESET_THRESHOLD)]]
                           ELSE [actions |-> << >>, engine |-> engine]
             ELSE [actions |-> << >>,
                   engine |-> [engine EXCEPT !.behind_first_detected = None]]
        ELSE IF /\ engine.slow_on_desync
                /\ ~inputs.global_paused
                /\ Abs(diff) > slowdown_threshold
        THEN IF ~engine.slowdown_active
             THEN [actions |-> <<Slowdown>>,
                   engine |-> [engine EXCEPT !.slowdown_active = TRUE]]
             ELSE [actions |-> << >>, engine |-> engine]
        ELSE IF engine.slowdown_active /\ Abs(diff) < slowdown_reset_threshold
        THEN [actions |-> <<ResetSpeed>>,
              engine |-> [engine EXCEPT !.slowdown_active = FALSE]]
        ELSE IF engine.slowdown_active /\ ~engine.slow_on_desync
        THEN [actions |-> <<ResetSpeed>>,
              engine |-> [engine EXCEPT !.slowdown_active = FALSE]]
        ELSE [actions |-> << >>, engine |-> engine]

\* calculate_sync_actions, the pause states compared: SetPaused when they
\* differ
SyncPause(inputs) ==
    IF inputs.local_paused /= inputs.global_paused
    THEN <<SetPaused(inputs.global_paused)>>
    ELSE << >>

\* calculate_sync_actions, the seek a do_seek asks for
SyncSeek(engine, inputs) ==
    IF inputs.do_seek
    THEN [actions |-> <<Seek(AdjustedGlobalPosition(inputs))>>
                         \o (IF engine.slowdown_active THEN <<ResetSpeed>> ELSE << >>),
          engine |-> [engine EXCEPT !.slowdown_active = FALSE]]
    ELSE [actions |-> << >>, engine |-> engine]

\* calculate_sync_actions, its end: None when nothing was pushed
SyncReturn(actions, engine) ==
    [actions |-> IF actions = << >> THEN <<SyncNone>> ELSE actions,
     engine |-> engine]

\* calculate_sync_actions whose rewind leaves the fast-forward timer as it
\* finds it
calculate_sync_actions_rewind_keeps_timer(engine, inputs, instant) ==
    LET sought == SyncSeek(engine, inputs)
        position == IF ~inputs.do_seek /\ inputs.local_paused = inputs.global_paused
                    THEN SyncPosition(sought.engine, inputs, instant)
                    ELSE [actions |-> << >>, engine |-> sought.engine]
        rewound == engine.rewind_on_desync /\ PositionDiff(inputs) > seek_threshold_rewind
    IN  SyncReturn(SyncPause(inputs) \o sought.actions \o position.actions,
                   IF rewound
                   THEN [position.engine EXCEPT
                            !.behind_first_detected = engine.behind_first_detected]
                   ELSE position.engine)

\* calculate_sync_actions that fast-forwards as soon as the lag exceeds the
\* threshold, however long ago the timer was set
calculate_sync_actions_without_waiting(engine, inputs, instant) ==
    LET sought == SyncSeek(engine, inputs)
        impatient == /\ ~inputs.do_seek
                     /\ inputs.local_paused = inputs.global_paused
                     /\ ~(engine.rewind_on_desync
                            /\ PositionDiff(inputs) > seek_threshold_rewind)
                     /\ inputs.allow_fastforward
                     /\ engine.fastforward_on_desync
                     /\ engine.behind_first_detected /= None
                     /\ PositionDiff(inputs) < -seek_threshold_fastforward
        position == IF impatient
                    THEN [actions |-> <<Seek(AdjustedGlobalPosition(inputs)
                                               + FASTFORWARD_EXTRA_TIME)>>,
                          engine |-> [engine EXCEPT
                              !.slowdown_active = FALSE,
                              !.behind_first_detected =
                                  Some(instant + FASTFORWARD_RESET_THRESHOLD)]]
                    ELSE IF ~inputs.do_seek /\ inputs.local_paused = inputs.global_paused
                    THEN SyncPosition(sought.engine, inputs, instant)
                    ELSE [actions |-> << >>, engine |-> sought.engine]
    IN  SyncReturn(SyncPause(inputs) \o sought.actions \o position.actions,
                   position.engine)

\* calculate_sync_actions that seeks as soon as the player is behind by the
\* fast-forward threshold, without a timer
calculate_sync_actions_plain_seek(engine, inputs, instant) ==
    LET sought == SyncSeek(engine, inputs)
        compared == ~inputs.do_seek /\ inputs.local_paused = inputs.global_paused
        position == IF compared /\ PositionDiff(inputs) <= -seek_threshold_fastforward
                    THEN [actions |-> <<Seek(AdjustedGlobalPosition(inputs))>>,
                          engine |-> [engine EXCEPT !.slowdown_active = FALSE]]
                    ELSE IF compared
                    THEN SyncPosition(sought.engine, inputs, instant)
                    ELSE [actions |-> << >>, engine |-> sought.engine]
    IN  SyncReturn(SyncPause(inputs) \o sought.actions \o position.actions,
                   position.engine)

\* calculate_sync_actions that goes on to compare the positions after the
\* seek of a do_seek
calculate_sync_actions_seek_then_compare(engine, inputs, instant) ==
    LET sought == SyncSeek(engine, inputs)
        position == IF inputs.local_paused = inputs.global_paused
                    THEN SyncPosition(sought.engine, inputs, instant)
                    ELSE [actions |-> << >>, engine |-> sought.engine]
    IN  SyncReturn(SyncPause(inputs) \o sought.actions \o position.actions,
                   position.engine)

\* SyncEngine::calculate_sync_actions at the instant the clock shows: the
\* list it returns and the engine it leaves
calculate_sync_actions(engine, inputs, instant) ==
    LET sought == SyncSeek(engine, inputs)
        position == IF ~inputs.do_seek /\ inputs.local_paused = inputs.global_paused
                    THEN SyncPosition(sought.engine, inputs, instant)
                    ELSE [actions |-> << >>, engine |-> sought.engine]
    IN  SyncReturn(SyncPause(inputs) \o sought.actions \o position.actions,
                   position.engine)

\* SyncEngine::is_slowdown_active
is_slowdown_active(engine) == engine.slowdown_active

\* AppState::new: a new engine; the preferences are the defaults
InitSync ==
    /\ sync_engine = NewSyncEngine
    /\ now = 0
    /\ dont_slow_down_with_me = FALSE
    /\ sync_calls = 0
    /\ last_sync_call = None

\* AppState::new: nobody in the room, no file, not ready, no countdown
InitRoom ==
    /\ users = {}
    /\ file = None
    /\ ready = FALSE
    /\ autoplay = AutoplayOff
    /\ room_warning_state = RoomWarningDefault
    /\ room_warning_task_running = FALSE
    /\ player_paused = None
    /\ player_commands = << >>
    /\ countdown_tasks = << >>
    /\ unpause_log = << >>
    /\ InitSync

\* AppState::new, before connect_to_server
InitSession ==
    /\ InitRoom
    /\ connection = None
    /\ last_hello = None
    /\ hello_sent = FALSE
    /\ last_latency_calculation = None
    /\ last_global_update = FALSE
    /\ events = << >>
    /\ tx = FALSE
    /\ cmd_rx = << >>
    /\ msg_rx = << >>
    /\ transport = "Empty"
    /\ worker = "not_started"
    /\ upgrade_response = "none"
    /\ lines_read = 0
    /\ wire = << >>
    /\ connect_pc = "start"
    /\ loop_pc = "not_started"
    /\ current_message = None
    /\ pump_sends = 0
    /\ sends = << >>
    /\ hello_origin = None
    /\ state_log = << >>
    /\ worker_exit = "none"
    /\ read_log = << >>

\* AppState::new
Init ==
    /\ InitPlaylist
    /\ ignoring_on_the_fly = IgnoringOnTheFlyState(0, 0)
    /\ last_state_call = None
    /\ InitChat
    /\ InitControl
    /\ InitPump
    /\ InitSession
    /\ InitAnyConfig

\* AppState::new with the default configuration
InitDefault ==
    /\ InitPlaylist
    /\ ignoring_on_the_fly = IgnoringOnTheFlyState(0, 0)
    /\ last_state_call = None
    /\ InitChat
    /\ InitControl
    /\ InitPump
    /\ InitSession
    /\ InitDefaultConfig

\* AppState::new with the default configuration, the player's IPC client
\* apart
InitApp ==
    /\ InitPlaylist
    /\ ignoring_on_the_fly = IgnoringOnTheFlyState(0, 0)
    /\ last_state_call = None
    /\ InitChat
    /\ InitControl
    /\ InitPumpIdle
    /\ InitSession
    /\ InitDefaultConfig

\* the state of the application apart from the player's IPC client
appStateVars == <<playlistVars, ignoringVars, appVars, configVars, roomVars,
                  autoplayVars, syncVars, chatVars, controlVars, pumpVars,
                  suppress_unpause_check, listVars, sessionsVars, eofVars, userVars, connVars,
                  serverVars, taskVars, historyVars>>

\* a session in its opening handshake: connect, the TLS answer or refusal,
\* Hello, with the pump and the user's disconnect alongside
Next ==
    \/ ConnectTcp
    \/ ConnectSetup
    \/ WorkerSend
    \/ WorkerUpgradeTls
    \/ WorkerDisconnect
    \/ WorkerReceive
    \/ WorkerEof
    \/ HandleTls
    \/ HandleTlsResume
    \/ HandleError
    \/ HandleHello
    \/ MessageLoopEnd
    \/ DisconnectFromServer
    \/ PumpSendState

Spec == Init /\ [][Next]_vars

\* the session under the scheduling of the tokio runtime: the
\* connect_to_server command runs to its end, and the message loop task,
\* once spawned, takes every message it can receive and notices the closed
\* channel
SpecLive ==
    /\ Init
    /\ [][Next]_vars
    /\ WF_vars(ConnectSetup)
    /\ WF_vars(HandleTls)
    /\ WF_vars(HandleTlsResume)
    /\ WF_vars(HandleError)
    /\ WF_vars(HandleHello)
    /\ WF_vars(MessageLoopEnd)

\* AppState::new with the default configuration, with or without a player
InitState ==
    /\ InitPlaylist
    /\ ignoring_on_the_fly = IgnoringOnTheFlyState(0, 0)
    /\ last_state_call = None
    /\ InitChat
    /\ InitControl
    /\ InitPump
    /\ InitSession
    /\ player \in BOOLEAN
    /\ ready_at_start = FALSE
    /\ tls_available = TRUE
    /\ autoplay_enabled = FALSE

\* a session in which the server broadcasts State messages
NextState ==
    \/ ConnectTcp
    \/ ConnectSetup
    \/ WorkerSend
    \/ WorkerDisconnect
    \/ WorkerReceiveState
    \/ WorkerEof
    \/ HandleState
    \/ HandleStateResume
    \/ MessageLoopEnd
    \/ DisconnectFromServer
    \/ PumpSendState

SpecState == InitState /\ [][NextState]_vars

\* seconds an autoplay countdown starts from
AUTOPLAY_DELAY_SECONDS == 3

\* the entries the users map may hold: a user with a ready flag and a file
UserNames == {"alice", "bob"}
User(name, is_ready, user_file) ==
    [username |-> name, is_ready |-> is_ready, file |-> user_file]

\* the connection of a session in progress, after the server declined TLS
\* and Hello was written
InitConnected ==
    /\ connection = Some("connection")
    /\ last_hello = Some(HelloMessage)
    /\ hello_sent = TRUE
    /\ last_latency_calculation = None
    /\ last_global_update = FALSE
    /\ events = <<TlsStatus("pending"), ConnectionStatus(TRUE), TlsStatus("unsupported")>>
    /\ tx = TRUE
    /\ cmd_rx = << >>
    /\ msg_rx = << >>
    /\ transport = "Plain"
    /\ worker = "running"
    /\ upgrade_response = "none"
    /\ lines_read = 1
    /\ wire = <<[message |-> TLSMessage(Some("send")), via |-> "Plain"],
                [message |-> HelloMessage, via |-> "Plain"]>>
    /\ connect_pc = "done"
    /\ loop_pc = "idle"
    /\ current_message = None
    /\ pump_sends = 0
    /\ sends = <<TLSMessage(Some("send")), HelloMessage>>
    /\ hello_origin =
          Some([site |-> "tls_false",
                events |-> <<TlsStatus("pending"), ConnectionStatus(TRUE),
                             TlsStatus("unsupported")>>,
                transport |-> "Plain"])
    /\ state_log = << >>
    /\ worker_exit = "none"
    /\ read_log = <<[kind |-> "message", message |-> TLSMessage(Some("false"))]>>

\* a session in progress: whoever is in the room, whatever is loaded, with or without a
\* countdown running and warnings raised
InitCleanup ==
    /\ \E pl \in {Playlist(<< >>, None), Playlist(<<1, 2>>, Some(1))} :
          /\ items = pl.items
          /\ current_index = pl.current_index
    /\ last_playlist_call = None
    /\ ignoring_on_the_fly = IgnoringOnTheFlyState(0, 0)
    /\ last_state_call = None
    /\ InitChat
    /\ InitControl
    /\ InitPump
    /\ InitDefaultConfig
    /\ users \in SUBSET {User("alice", TRUE, Some(1)), User("bob", FALSE, None)}
    /\ file \in {None, Some(1)}
    /\ ready \in BOOLEAN
    /\ autoplay \in {AutoplayOff}
                     \cup {[countdown_active |-> TRUE, countdown_remaining |-> n] :
                               n \in 0..AUTOPLAY_DELAY_SECONDS}
    /\ room_warning_state \in
          {RoomWarningDefault,
           [alone |-> TRUE, file_differences |-> None, not_ready |-> None]}
    /\ room_warning_task_running \in BOOLEAN
    /\ player_paused = None
    /\ player_commands = << >>
    /\ countdown_tasks = << >>
    /\ unpause_log = << >>
    /\ InitSync
    /\ InitConnected

\* the session ends: the stream closes or the user disconnects
NextCleanup ==
    \/ WorkerEof
    \/ WorkerDisconnect
    \/ MessageLoopEnd
    \/ DisconnectFromServer

SpecCleanup == InitCleanup /\ [][NextCleanup]_vars


(***************************************************************************)
(* The autoplay countdown: commands/connection.rs                          *)
(***************************************************************************)
\* countdown tasks spawned in one session
MaxCountdowns == 2

\* same_filename on two optional file names
same_filename(a, b) == IsSome(a) /\ a = b

\* autoplay_conditions_met, with autoplay_require_same_filenames on and
\* autoplay_min_users -1, their defaults
autoplay_conditions_met(us, current_file, paused) ==
    /\ autoplay_enabled
    /\ us /= {}
    /\ \A user \in us : user.is_ready /\ same_filename(current_file, user.file)
    /\ ~(player /\ paused = Some(FALSE))

\* a countdown task: about to check, or asleep for a second, or returned
CountdownTask(pc, checks) == [pc |-> pc, checks |-> checks]

\* evaluate_autoplay after the users map became us: start_autoplay_countdown
\* when the conditions hold, the countdown switched off otherwise
evaluate_autoplay_paused(us, paused) ==
    IF autoplay_conditions_met(us, file, paused)
    THEN IF autoplay.countdown_active
         THEN UNCHANGED <<autoplay, countdown_tasks>>
         ELSE /\ autoplay' = [countdown_active |-> TRUE,
                              countdown_remaining |-> AUTOPLAY_DELAY_SECONDS]
              /\ countdown_tasks' = Append(countdown_tasks, CountdownTask("check", 0))
    ELSE /\ autoplay' = AutoplayOff
         /\ UNCHANGED countdown_tasks

\* evaluate_autoplay while the player is as the last handler left it
evaluate_autoplay(us) == evaluate_autoplay_paused(us, player_paused)

\* handle_set_message for a Set that carries the ready state of a user
HandleSetReady ==
    /\ loop_pc = "idle"
    /\ connection /= None
    /\ \E username \in UserNames, is_ready \in BOOLEAN :
          LET known == {user \in users : user.username = username}
              others == users \ known
              updated == IF known = {}
                         THEN {User(username, is_ready, None)}
                         ELSE {User(user.username, is_ready, user.file) : user \in known}
          IN  /\ users' = others \cup updated
              /\ (/\ autoplay_conditions_met(users', file, player_paused)
                  /\ ~autoplay.countdown_active)
                     => Len(countdown_tasks) < MaxCountdowns
              /\ evaluate_autoplay(users')
    /\ UNCHANGED <<playlistVars, ignoringVars, appVars, configVars, file, ready,
                   room_warning_state, room_warning_task_running, player_paused,
                   player_commands, unpause_log, syncVars, otherVars, connVars, serverVars,
                   taskVars, historyVars>>

\* player.set_paused(paused)
SetPausedCommand(paused) == [command |-> "set_paused", paused |-> paused]

\* one turn of the loop of a countdown task: under the autoplay lock it
\* returns if the countdown is off, switches it off if the conditions fail,
\* unpauses the player when nothing remains, and counts down otherwise
CountdownCheck ==
    \E i \in DOMAIN countdown_tasks :
        /\ countdown_tasks[i].pc = "check"
        /\ LET checks == countdown_tasks[i].checks + 1
               ended == [countdown_tasks EXCEPT ![i] = CountdownTask("returned", checks)]
           IN  IF ~autoplay.countdown_active
               THEN /\ countdown_tasks' = ended
                    /\ UNCHANGED <<autoplay, player_paused, player_commands, unpause_log>>
               ELSE IF ~autoplay_conditions_met(users, file, player_paused)
               THEN /\ countdown_tasks' = ended
                    /\ autoplay' = AutoplayOff
                    /\ UNCHANGED <<player_paused, player_commands, unpause_log>>
               ELSE IF autoplay.countdown_remaining <= 0
               THEN /\ countdown_tasks' = ended
                    /\ autoplay' = [autoplay EXCEPT !.countdown_active = FALSE]
                    /\ IF player
                       THEN /\ player_commands' =
                                  Append(player_commands, SetPausedCommand(FALSE))
                            /\ player_paused' = Some(FALSE)
                            /\ unpause_log' =
                                  Append(unpause_log, [task |-> i, checks |-> checks])
                       ELSE UNCHANGED <<player_paused, player_commands, unpause_log>>
               ELSE /\ countdown_tasks' =
                          [countdown_tasks EXCEPT ![i] = CountdownTask("sleeping", checks)]
                    /\ autoplay' = [autoplay EXCEPT !.countdown_remaining = @ - 1]
                    /\ UNCHANGED <<player_paused, player_commands, unpause_log>>
    /\ UNCHANGED <<playlistVars, ignoringVars, appVars, configVars, users, file, ready,
                   room_warning_state, room_warning_task_running, syncVars, otherVars,
                   connVars,
                   serverVars, taskVars, historyVars>>

\* sleep(Duration::from_secs(1)) of a countdown task is over
CountdownWake ==
    /\ \E i \in DOMAIN countdown_tasks :
          /\ countdown_tasks[i].pc = "sleeping"
          /\ countdown_tasks' = [countdown_tasks EXCEPT ![i].pc = "check"]
    /\ UNCHANGED <<playlistVars, ignoringVars, appVars, configVars, roomVars,
                   player_paused, player_commands, unpause_log, syncVars, otherVars, connVars,
                   serverVars, taskVars, historyVars>>

\* a session in progress with autoplay enabled, a paused player with a file
\* loaded, and two users in the room who have the same file and are not ready
InitAutoplay ==
    /\ InitPlaylist
    /\ ignoring_on_the_fly = IgnoringOnTheFlyState(0, 0)
    /\ last_state_call = None
    /\ InitChat
    /\ InitControl
    /\ InitPump
    /\ player = TRUE
    /\ ready_at_start = FALSE
    /\ tls_available = TRUE
    /\ autoplay_enabled = TRUE
    /\ users = {User("alice", FALSE, Some(1)), User("bob", FALSE, Some(1))}
    /\ file = Some(1)
    /\ ready = FALSE
    /\ autoplay = AutoplayOff
    /\ room_warning_state = RoomWarningDefault
    /\ room_warning_task_running = FALSE
    /\ player_paused = Some(TRUE)
    /\ player_commands = << >>
    /\ countdown_tasks = << >>
    /\ unpause_log = << >>
    /\ InitSync
    /\ InitConnected

NextAutoplay ==
    \/ HandleSetReady
    \/ CountdownCheck
    \/ CountdownWake

SpecAutoplay == InitAutoplay /\ [][NextAutoplay]_vars

(***************************************************************************)
(* A session in a room: Hello, Set.ready and Set.controllerAuth            *)
(* commands/connection.rs                                                  *)
(***************************************************************************)
\* lines the worker reads while the session is in a room
MaxRoomLines == 4

\* client::state::User, without file_size and file_duration
RoomUser(name, user_room, is_ready, is_controller) ==
    [username |-> name, room |-> user_room, file |-> None, is_ready |-> is_ready,
     is_controller |-> is_controller]

\* ClientState::get_user on the users map, held as the set of its entries
get_user(us, name) ==
    IF \E user \in us : user.username = name
    THEN Some(CHOOSE user \in us : user.username = name)
    ELSE None

\* ClientState::add_user: the entry of that name is inserted or replaced
add_user(us, user) ==
    {other \in us : other.username /= user.username} \cup {user}

\* ReadyState { username, isReady } and ControllerAuth { room, password,
\* user, success } as the server sends them
ReadyState(name, is_ready) == [username |-> name, is_ready |-> is_ready]

ControllerAuth(user_room, name, success) ==
    [room |-> user_room, password |-> None, user |-> name, success |-> success]

\* NewControlledRoom { roomName, password }
NewControlledRoom(name, password) == [room_name |-> name, password |-> password]

\* ProtocolMessage::Set with the fields ready, controllerAuth and
\* newControlledRoom; every other field is absent
SetMessage(ready_state, controller_auth, new_controlled_room) ==
    [type |-> "Set", ready |-> ready_state, controller_auth |-> controller_auth,
     new_controlled_room |-> new_controlled_room]

\* Set.room { name } as the client sends it
SetRoomRequest(name) == [type |-> "Set", room |-> name]

\* user-list-updated with the users map as it is
UserListUpdated(us) == [event |-> "user-list-updated", users |-> us]

\* handle_set_message, the ready field with a username: an absent isReady
\* stands for what the user's entry holds (false for an unknown user), the
\* entry is written back or created, and the local flag follows only a
\* present isReady that names the local user
apply_ready_reading_null_as_false(us, local_ready, current_room, ready_state) ==
    LET name == Unwrap(ready_state.username)
        known == get_user(us, name)
        is_ready == IF IsSome(ready_state.is_ready)
                    THEN Unwrap(ready_state.is_ready)
                    ELSE FALSE
    IN  [users |-> IF IsSome(known)
                   THEN add_user(us, [Unwrap(known) EXCEPT !.is_ready = is_ready])
                   ELSE add_user(us, RoomUser(name, current_room, is_ready, FALSE)),
         ready |-> IF name = LocalUsername THEN is_ready ELSE local_ready,
         users_changed |-> TRUE]

apply_ready(us, local_ready, current_room, ready_state) ==
    LET name == Unwrap(ready_state.username)
        known == get_user(us, name)
        is_ready == IF IsSome(ready_state.is_ready)
                    THEN Unwrap(ready_state.is_ready)
                    ELSE IF IsSome(known) THEN Unwrap(known).is_ready ELSE FALSE
    IN  [users |-> IF IsSome(known)
                   THEN add_user(us, [Unwrap(known) EXCEPT !.is_ready = is_ready])
                   ELSE add_user(us, RoomUser(name, current_room, is_ready, FALSE)),
         ready |-> IF IsSome(ready_state.is_ready) /\ name = LocalUsername
                   THEN is_ready
                   ELSE local_ready,
         users_changed |-> TRUE]

\* set_user_controller_status(state, username, Some(room), is_controller)
set_user_controller_status(us, current_room, name, user_room, is_controller) ==
    LET known == get_user(us, name)
        user == IF IsSome(known)
                THEN Unwrap(known)
                ELSE RoomUser(name, user_room, FALSE, FALSE)
    IN  [users |-> add_user(us, [user EXCEPT !.room = user_room,
                                             !.is_controller = is_controller]),
         changed |-> user.is_controller /= is_controller]

\* what handle_controller_auth leaves: the users map, the password map, the
\* room list, the chat lines and whether the user list is to be published
AuthOutcome(us, passwords, rooms, lines, changed) ==
    [users |-> us, passwords |-> passwords, room_list |-> rooms, events |-> lines,
     changed |-> changed]

\* a handle_controller_auth that marks the user on a refusal as well
handle_controller_auth_ignoring_success(us, current_room, passwords, rooms, attempt, auth) ==
    IF auth.success = None
    THEN AuthOutcome(us, passwords, rooms, << >>, FALSE)
    ELSE LET name == IF IsSome(auth.user) THEN Unwrap(auth.user) ELSE LocalUsername
             user_room == IF IsSome(auth.room) THEN Unwrap(auth.room) ELSE current_room
             status == set_user_controller_status(us, current_room, name, user_room, TRUE)
         IN  AuthOutcome(status.users, passwords, rooms, << >>, status.changed)

\* handle_controller_auth (no player is attached, so maybe_show_osd shows
\* nothing)
handle_controller_auth(us, current_room, passwords, rooms, attempt, auth) ==
    IF auth.success = None
    THEN AuthOutcome(us, passwords, rooms, << >>, FALSE)
    ELSE LET name == IF IsSome(auth.user) THEN Unwrap(auth.user) ELSE LocalUsername
             user_room == IF IsSome(auth.room) THEN Unwrap(auth.room) ELSE current_room
         IN  IF Unwrap(auth.success)
             THEN LET status == set_user_controller_status(us, current_room, name,
                                                           user_room, TRUE)
                      stored == IF name = LocalUsername /\ IsSome(attempt)
                                THEN store_control_password(passwords, rooms, user_room,
                                                            Unwrap(attempt))
                                ELSE [passwords |-> passwords, room_list |-> rooms]
                  IN  AuthOutcome(status.users, stored.passwords, stored.room_list,
                                  IF user_room = current_room
                                  THEN <<SystemMessage(<<name, "authenticated", "as", "a",
                                                         "room", "operator">>)>>
                                  ELSE << >>,
                                  status.changed)
             ELSE AuthOutcome(us, passwords, rooms,
                              IF name = LocalUsername
                              THEN <<ChatError(<<name, "failed", "to", "identify", "as",
                                                 "a", "room", "operator">>)>>
                              ELSE << >>,
                              FALSE)

\* handle_new_controlled_room: a system chat line, the room is entered, and
\* over a connection that takes them Set.room and the List request go out;
\* then the password is remembered as the attempt and Set.controllerAuth is
\* sent.  A connection whose channel is closed ends it after the room is set.
handle_new_controlled_room(current_room, attempt, conn, can_send, created) ==
    IF created.room_name = None \/ created.password = None
    THEN [events |-> << >>, room |-> current_room, attempt |-> attempt,
          messages |-> << >>]
    ELSE LET name == Unwrap(created.room_name)
             password == strip_control_password(Unwrap(created.password))
             line == SystemMessage(<<"Created", "managed", "room">> \o name
                                   \o <<"with", "password">>
                                   \o Unwrap(created.password))
         IN  IF conn /= None /\ ~can_send
             THEN [events |-> <<line>>, room |-> name, attempt |-> attempt,
                   messages |-> << >>]
             ELSE [events |-> <<line>>, room |-> name,
                   attempt |-> IF password /= << >> THEN Some(password) ELSE attempt,
                   messages |->
                       IF conn = None THEN << >>
                       ELSE <<SetRoomRequest(name), ListRequest>>
                              \o (IF password /= << >>
                                  THEN <<ControllerAuthRequest(name, password)>>
                                  ELSE << >>)]

\* handle_server_message, Set arm: handle_set_message for a Set that carries
\* ready, controllerAuth or newControlledRoom
HandleSet ==
    /\ loop_pc = "idle"
    /\ msg_rx /= << >>
    /\ Head(msg_rx).type = "Set"
    /\ msg_rx' = Tail(msg_rx)
    /\ LET message == Head(msg_rx)
           named == IsSome(message.ready) /\ IsSome(Unwrap(message.ready).username)
           readied == IF named
                      THEN apply_ready(users, ready, room, Unwrap(message.ready))
                      ELSE [users |-> users, ready |-> ready, users_changed |-> FALSE]
           authed == IF IsSome(message.controller_auth)
                     THEN handle_controller_auth(readied.users, room,
                                                 controlled_room_passwords, room_list,
                                                 last_control_password_attempt,
                                                 Unwrap(message.controller_auth))
                     ELSE AuthOutcome(readied.users, controlled_room_passwords,
                                      room_list, << >>, FALSE)
           created == IF IsSome(message.new_controlled_room)
                      THEN handle_new_controlled_room(
                               room, last_control_password_attempt, connection,
                               CanSend, Unwrap(message.new_controlled_room))
                      ELSE [events |-> << >>, room |-> room,
                            attempt |-> last_control_password_attempt,
                            messages |-> << >>]
       IN  /\ users' = authed.users
           /\ room' = created.room
           /\ last_control_password_attempt' = created.attempt
           /\ Sending(created.messages)
           /\ ready' = readied.ready
           /\ controlled_room_passwords' = authed.passwords
           /\ room_list' = authed.room_list
           /\ events' = events
                          \o authed.events
                          \o (IF authed.changed THEN <<UserListUpdated(users')>> ELSE << >>)
                          \o created.events
                          \o (IF readied.users_changed
                              THEN <<UserListUpdated(users')>>
                              ELSE << >>)
           /\ evaluate_autoplay(users')
    /\ UNCHANGED <<playlistVars, ignoringVars, connection, last_hello, hello_sent,
                   last_latency_calculation, last_global_update, configVars, file,
                   room_warning_state, room_warning_task_running, player_paused,
                   player_commands, unpause_log, syncVars, chatVars, pumpVars,
                   suppress_unpause_check, listVars, extraVars, tx, transport, worker, upgrade_response, serverVars, taskVars, hello_origin,
                   state_log, worker_exit, read_log, wire>>

\* the messages of a server whose client is in a room
ServerRoomMessages ==
    {HelloMessage}
    \cup {SetMessage(Some(ReadyState(name, is_ready)), None, None) :
              name \in {Some(LocalUsername), Some("alice")},
              is_ready \in {None, Some(TRUE), Some(FALSE)}}
    \cup {SetMessage(Some(ReadyState(None, Some(TRUE))), None, None)}
    \cup {SetMessage(None, Some(ControllerAuth(user_room, name, success)), None) :
              user_room \in {None, Some(<<"vip">>)},
              name \in {None, Some(LocalUsername), Some("alice")},
              success \in {Some(TRUE), Some(FALSE)}}
    \cup {SetMessage(None, Some(ControllerAuth(None, None, None)), None)}
    \cup {SetMessage(None, None, Some(NewControlledRoom(name, password))) :
              name \in {None} \cup {Some(created) : created \in CreatedRooms},
              password \in {Some(<<"created">>)}}

ServerRoomLines == Lines(ServerRoomMessages)

\* the worker reads a line while the session is in a room
WorkerReceiveRoom == ReceiveUpTo(ServerRoomLines, MaxRoomLines)

\* connect_to_server was given one of RoomInputs and the local user's name;
\* the server declined TLS, Hello was written, and the users map is what an
\* earlier List left
InitRoomSession ==
    /\ InitPlaylist
    /\ ignoring_on_the_fly = IgnoringOnTheFlyState(0, 0)
    /\ last_state_call = None
    /\ InitChat
    /\ InitPump
    /\ InitDefaultConfig
    /\ \E input \in RoomInputs :
          LET parsed == parse_controlled_room_input(input)
              stored == IF IsSome(parsed.password)
                        THEN store_control_password(NoPasswords, << >>, parsed.room,
                                                    Unwrap(parsed.password))
                        ELSE [passwords |-> NoPasswords, room_list |-> << >>]
          IN  /\ room = parsed.room
              /\ controlled_room_passwords = stored.passwords
              /\ room_list = stored.room_list
              /\ users \in {{},
                            {RoomUser(LocalUsername, parsed.room, FALSE, FALSE)},
                            {RoomUser(LocalUsername, parsed.room, TRUE, FALSE),
                             RoomUser("alice", parsed.room, TRUE, FALSE)}}
    /\ last_control_password_attempt = None
    /\ ready \in BOOLEAN
    /\ file = None
    /\ autoplay = AutoplayOff
    /\ room_warning_state = RoomWarningDefault
    /\ room_warning_task_running = FALSE
    /\ player_paused = None
    /\ player_commands = << >>
    /\ countdown_tasks = << >>
    /\ unpause_log = << >>
    /\ InitSync
    /\ InitConnected

NextRoom ==
    \/ WorkerReceiveRoom
    \/ WorkerSend
    \/ HandleHello
    \/ HandleSet

SpecRoom == InitRoomSession /\ [][NextRoom]_vars


(***************************************************************************)
(* handle_state_update: the engine is asked what to do about a playstate   *)
(* of the server, and the player is given the answer.                      *)
(***************************************************************************)
MaxSyncCalls == 3

\* positions of the player and of the server, ages of a message and the time
\* between two calls, in ticks: 5.0, 8.0, 10.0 and 20.0 s against 10.0 s, a
\* message 0 or 0.25 s old, calls 1 or 7 s apart
LocalPositions == {100, 160, 200, 400}

GlobalPositions == {200}

MessageAges == {0, 5}

Delays == {20, 140}

\* should_allow_fastforward, for a user who can or cannot control the room
should_allow_fastforward(can_control) ==
    IF dont_slow_down_with_me THEN TRUE ELSE ~can_control

\* player.set_position(position), player.set_speed(speed in hundredths)
SetPositionCommand(position) == [command |-> "set_position", position |-> position]

SetSpeedCommand(speed) == [command |-> "set_speed", speed |-> speed]

\* the command an action becomes in the loop of handle_state_update
CommandOf(action) ==
    IF action.action = "Seek" THEN <<SetPositionCommand(action.position)>>
    ELSE IF action.action = "SetPaused" THEN <<SetPausedCommand(action.paused)>>
    ELSE IF action.action = "Slowdown" THEN <<SetSpeedCommand(slowdown_rate)>>
    ELSE IF action.action = "ResetSpeed" THEN <<SetSpeedCommand(100)>>
    ELSE << >>

\* the system message an action posts there, the state being set by somebody
\* else than this user
MessageOf(action, inputs) ==
    IF action.action = "Seek"
    THEN <<SystemMessage(IF inputs.local_position > AdjustedGlobalPosition(inputs)
                         THEN <<"Rewinded">> ELSE <<"Fast-forwarded">>)>>
    ELSE IF action.action = "SetPaused"
    THEN <<SystemMessage(IF action.paused THEN <<"paused">> ELSE <<"unpaused">>)>>
    ELSE IF action.action = "Slowdown" THEN <<SystemMessage(<<"Slowing", "down">>)>>
    ELSE IF action.action = "ResetSpeed"
    THEN <<SystemMessage(<<"Reverting", "speed", "back", "to", "normal">>)>>
    ELSE << >>

\* the loop of handle_state_update going through the list from its end
RECURSIVE ApplyActionsReversed(_)
ApplyActionsReversed(actions) ==
    IF actions = << >> THEN << >>
    ELSE ApplyActionsReversed(Tail(actions)) \o CommandOf(Head(actions))

\* for action in actions: the commands the player is given, in the order it
\* is given them
RECURSIVE ApplyActions(_)
ApplyActions(actions) ==
    IF actions = << >> THEN << >>
    ELSE CommandOf(Head(actions)) \o ApplyActions(Tail(actions))

RECURSIVE PostActions(_, _)
PostActions(actions, inputs) ==
    IF actions = << >> THEN << >>
    ELSE MessageOf(Head(actions), inputs) \o PostActions(Tail(actions), inputs)

\* the pause state the commands leave the player in
RECURSIVE PausedAfter(_, _)
PausedAfter(commands, paused) ==
    IF commands = << >> THEN paused
    ELSE PausedAfter(Tail(commands),
                     IF Head(commands).command = "set_paused"
                     THEN Head(commands).paused ELSE paused)

\* the actions of a call hold the seek of a fast-forward
FastForwarded(call) ==
    \E i \in DOMAIN call.actions :
        call.actions[i] =
            Seek(AdjustedGlobalPosition(call.inputs) + FASTFORWARD_EXTRA_TIME)

\* handle_state_update for the playstate of a State message: the positions,
\* the pause states and the age are those of the player and of the message
\* at the instant of the call, each drawn from the set given for it
HandleStateUpdateFrom(local_positions, local_pauses, global_pauses, ages, seeks, controls, delays) ==
    /\ sync_calls < MaxSyncCalls
    /\ last_global_update' = TRUE
    /\ IF ~player
       THEN UNCHANGED <<events, autoplay, autoplayVars, syncVars,
                        suppress_unpause_check, unpaused_by>>
       ELSE \E local_position \in local_positions, local_paused \in local_pauses,
               global_position \in GlobalPositions, global_paused \in global_pauses,
               message_age \in ages, do_seek \in seeks,
               can_control \in controls, delay \in delays :
               \* the instant, the inputs, the result of the engine and the
               \* commands for the player, each computed once
               \E instant \in {now + delay} :
               \E inputs \in {SyncInputs(local_position, local_paused,
                                         global_position, global_paused,
                                         message_age, do_seek,
                                         should_allow_fastforward(can_control))} :
               \E result \in {calculate_sync_actions(sync_engine, inputs, instant)} :
               \E commands \in {ApplyActions(result.actions)} :
               LET behind == PositionDiff(inputs) < -FASTFORWARD_BEHIND_THRESHOLD
                   timer_set_here ==
                       \/ sync_engine.behind_first_detected = None
                       \/ last_sync_call = None
                       \/ FastForwarded(Unwrap(last_sync_call))
               IN  /\ now' = instant
                   /\ sync_engine' = result.engine
                   /\ sync_calls' = sync_calls + 1
                   /\ last_sync_call' = Some([inputs |-> inputs,
                                              instant |-> instant,
                                              before |-> sync_engine,
                                              actions |-> result.actions,
                                              after |-> result.engine,
                                              commands |-> commands,
                                              behind_since_set |->
                                                  IF timer_set_here THEN behind
                                                  ELSE /\ behind
                                                       /\ Unwrap(last_sync_call).behind_since_set])
                   /\ player_commands' = player_commands \o commands
                   /\ player_paused' = Some(PausedAfter(commands, local_paused))
                   /\ unpaused_by' = IF ~PausedAfter(commands, TRUE) THEN "remote"
                                     ELSE IF PausedAfter(commands, FALSE) THEN "none"
                                     ELSE unpaused_by
                   /\ suppress_unpause_check' =
                          (\/ suppress_unpause_check
                           \/ \E i \in DOMAIN result.actions :
                                 result.actions[i] = SetPaused(FALSE))
                   /\ events' = events \o PostActions(result.actions, inputs)
                   /\ evaluate_autoplay_paused(users, player_paused')
                   /\ UNCHANGED <<unpause_log, dont_slow_down_with_me>>
    /\ UNCHANGED <<playlistVars, ignoringVars, connection, last_hello, hello_sent,
                   last_latency_calculation, configVars, users, file, ready,
                   room_warning_state, room_warning_task_running, chatVars,
                   controlVars, pumpVars, listVars, mpvVars, sessionsVars, eofVars,
                   update_log, connVars, serverVars, taskVars, historyVars>>

\* handle_state_update whatever the player and the message hold; with
\* dont_slow_down_with_me should_allow_fastforward does not look at who
\* controls the room
HandleStateUpdate ==
    HandleStateUpdateFrom(LocalPositions, BOOLEAN, BOOLEAN, MessageAges, BOOLEAN,
                          IF dont_slow_down_with_me THEN {FALSE} ELSE BOOLEAN,
                          Delays)

\* the switches of the preferences: slow_on_desync, dont_slow_down_with_me,
\* rewind_on_desync and fastforward_on_desync; the defaults, the defaults
\* with dont_slow_down_with_me, and every switch off
Preferences ==
    {[slow_on_desync |-> TRUE, dont_slow_down_with_me |-> FALSE,
      rewind_on_desync |-> TRUE, fastforward_on_desync |-> TRUE],
     [slow_on_desync |-> TRUE, dont_slow_down_with_me |-> TRUE,
      rewind_on_desync |-> TRUE, fastforward_on_desync |-> TRUE],
     [slow_on_desync |-> FALSE, dont_slow_down_with_me |-> FALSE,
      rewind_on_desync |-> FALSE, fastforward_on_desync |-> FALSE]}

\* a session in progress with a player attached: connect_to_server has given
\* a new engine the preferences of the user, which stay as they are
InitSyncSession ==
    /\ InitPlaylist
    /\ ignoring_on_the_fly = IgnoringOnTheFlyState(0, 0)
    /\ last_state_call = None
    /\ InitChat
    /\ InitControl
    /\ InitPump
    /\ player = TRUE
    /\ ready_at_start = FALSE
    /\ tls_available = TRUE
    /\ autoplay_enabled = FALSE
    /\ users = {}
    /\ file = Some(1)
    /\ ready = FALSE
    /\ autoplay = AutoplayOff
    /\ room_warning_state = RoomWarningDefault
    /\ room_warning_task_running = FALSE
    /\ player_paused = Some(FALSE)
    /\ player_commands = << >>
    /\ countdown_tasks = << >>
    /\ unpause_log = << >>
    /\ \E prefs \in Preferences :
          /\ sync_engine = update_from_config(NewSyncEngine, prefs.slow_on_desync,
                                              prefs.dont_slow_down_with_me,
                                              prefs.rewind_on_desync,
                                              prefs.fastforward_on_desync)
          /\ dont_slow_down_with_me = prefs.dont_slow_down_with_me
    /\ now = 0
    /\ sync_calls = 0
    /\ last_sync_call = None
    /\ InitConnected

NextSync ==
    \/ HandleStateUpdate

SpecSync == InitSyncSession /\ [][NextSync]_vars

(***************************************************************************)
(* The player state pump: player/controller.rs (spawn_player_state_loop,   *)
(* load_media_by_name) with the player, the user at the player and the     *)
(* server around it.  Positions and durations are in half seconds; the     *)
(* files are long enough that the position stays away from their end, so   *)
(* handle_end_of_file is never reached.                                    *)
(***************************************************************************)
\* ticks of the pump explored
MaxPumpTicks == 2
\* the farthest the position moves
MaxPosition == 1
\* playstates of the server handled while the pump is watched
MaxPumpStateUpdates == 1

\* the files in the media directories and how long each is
MediaFiles == {1, 2}

DurationOf(name) == 100 * name

\* PlayerState and PlayerStateSnapshot::from: filename, position, paused,
\* duration
PlayerState(filename, position, paused, duration) ==
    [filename |-> filename, position |-> position, paused |-> paused,
     duration |-> duration]

\* player.get_state()
get_state == PlayerState(player_file, player_position, player_paused, player_duration)

\* file_info_changed
file_info_changed(player_state, last) ==
    IF last = None THEN TRUE
    ELSE \/ Unwrap(last).filename /= player_state.filename
         \/ Unwrap(last).duration /= player_state.duration

\* should_send_state: 0.5 s is one unit of position
should_send_state(player_state, last) ==
    IF last = None THEN TRUE
    ELSE IF \/ player_state.paused /= Unwrap(last).paused
            \/ player_state.filename /= Unwrap(last).filename
    THEN TRUE
    ELSE IF IsSome(player_state.position) /\ IsSome(Unwrap(last).position)
    THEN Abs(Unwrap(player_state.position) - Unwrap(Unwrap(last).position)) >= 1
    ELSE FALSE

\* to_play_state
to_play_state(player_state) ==
    IF player_state.position = None \/ player_state.paused = None THEN None
    ELSE Some([position |-> Unwrap(player_state.position),
               paused |-> Unwrap(player_state.paused)])

\* the position has reached the last 0.2 s of the file
AtEnd(player_state) ==
    /\ IsSome(player_state.duration)
    /\ IsSome(player_state.position)
    /\ Unwrap(player_state.duration) > 0
    /\ Unwrap(player_state.position) >= Unwrap(player_state.duration)

\* ClientState::get_users_in_room
get_users_in_room(us, name) == {user \in us : user.room = name}

\* all_other_users_ready
all_other_users_ready(us, name) ==
    \A user \in get_users_in_room(us, name) :
        user.username = LocalUsername \/ user.is_ready

\* instaplay_conditions_met, with autoplay_min_users -1, its default
instaplay_conditions_met(action, us, name, is_ready) ==
    IF action = "Always" THEN TRUE
    ELSE IF action = "IfAlreadyReady" THEN is_ready
    ELSE all_other_users_ready(us, name)

\* send_file_update: Set.file with the raw name and duration (the privacy
\* modes are SendRaw, their default)
FileUpdate(name, duration) ==
    [type |-> "Set", file |-> [name |-> name, duration |-> duration]]

\* send_ready_state(state, true, true): Set.ready
ManualReadyMessage == [type |-> "Set", is_ready |-> TRUE, manually_initiated |-> TRUE]

\* what one tick of the pump found and did; users is what
\* all_other_users_ready read from the users map, when it was called
Tick(player_state, consulted, blocked, file_update, messages, commands) ==
    [prev |-> last_sent, state |-> player_state, ready |-> ready,
     users |-> IF consulted THEN Some(get_users_in_room(users, room)) ELSE None,
     listing |-> list_progress,
     suppress_next_file_update |-> suppress_next_file_update,
     suppress_unpause_check |-> suppress_unpause_check,
     server_loaded |-> server_loaded, blocked |-> blocked,
     file_update |-> file_update, messages |-> messages, commands |-> commands]

\* the unpause check of a pump that reads the flag without taking it down
unpause_flag_after_kept(unpaused, flag) == flag

\* the unpause check of the pump on the flag: a transition from paused to
\* playing takes the flag down
unpause_flag_after(unpaused, flag) == IF unpaused THEN FALSE ELSE flag

\* a pump that goes on to announce the file and the state after it has
\* blocked an unpause
Blocks_going_on(unpaused, suppressed, instaplay) == FALSE

\* the pump blocks the unpause and leaves the tick: a transition from paused
\* to playing, the flag down, the instaplay conditions not met
Blocks(unpaused, suppressed, instaplay) == unpaused /\ ~suppressed /\ ~instaplay

\* one turn of the loop of spawn_player_state_loop with a player attached
\* (the player-state-changed event for the window is not recorded)
PumpTick ==
    /\ player
    /\ pump_ticks < MaxPumpTicks
    /\ pump_ticks' = pump_ticks + 1
    /\ ~AtEnd(get_state)
    /\ LET player_state == get_state
           unpaused == /\ IsSome(last_sent)
                       /\ Unwrap(last_sent).paused = Some(TRUE)
                       /\ player_state.paused = Some(FALSE)
           instaplay == instaplay_conditions_met(unpause_action, users, room, ready)
           blocked == Blocks(unpaused, suppress_unpause_check, instaplay)
           stopped == unpaused /\ ~suppress_unpause_check /\ ~instaplay
           changed == file_info_changed(player_state, last_sent)
           announced == changed /\ ~suppress_next_file_update
                        /\ IsSome(player_state.filename)
           sending == should_send_state(player_state, last_sent)
           play_state == to_play_state(player_state)
           ready_messages == IF ~ready THEN <<ManualReadyMessage>> ELSE << >>
           file_messages ==
               IF announced
               THEN <<FileUpdate(Unwrap(player_state.filename), player_state.duration)>>
               ELSE << >>
           state_messages ==
               IF sending /\ IsSome(play_state)
               THEN <<StateMessage(play_state, None, None)>>
               ELSE << >>
           stop_commands == IF stopped THEN <<SetPausedCommand(TRUE)>> ELSE << >>
           messages == (IF stopped THEN ready_messages ELSE << >>)
                       \o (IF blocked THEN << >> ELSE file_messages \o state_messages)
       IN  IF connection = None
           THEN /\ last_tick' = Some(Tick(player_state, FALSE, FALSE, None, << >>,
                                           << >>))
                /\ UNCHANGED <<suppress_unpause_check, suppress_next_file_update,
                               eof_sent, file, ready, last_sent, player_paused,
                               player_commands, cmd_rx, sends, unpaused_by>>
           ELSE /\ last_tick' =
                      Some(Tick(player_state,
                                /\ unpaused
                                /\ ~suppress_unpause_check
                                /\ unpause_action \in {"IfOthersReady", "IfMinUsersReady"},
                                stopped,
                                IF announced /\ ~blocked THEN player_state.filename
                                ELSE None,
                                messages, stop_commands))
                /\ suppress_unpause_check' =
                      unpause_flag_after(unpaused, suppress_unpause_check)
                /\ player_commands' = player_commands \o stop_commands
                /\ player_paused' = IF stopped THEN Some(TRUE) ELSE player_paused
                /\ unpaused_by' = IF stopped THEN "none" ELSE unpaused_by
                /\ ready' = (ready \/ stopped)
                /\ Sending(messages)
                /\ IF blocked
                   THEN UNCHANGED <<suppress_next_file_update, eof_sent, file, last_sent>>
                   ELSE /\ suppress_next_file_update' =
                              IF changed THEN FALSE ELSE suppress_next_file_update
                        /\ eof_sent' = IF changed THEN FALSE ELSE eof_sent
                        /\ file' = IF announced THEN player_state.filename ELSE file
                        /\ last_sent' = IF sending THEN Some(player_state) ELSE last_sent
    /\ UNCHANGED <<playlistVars, ignoringVars, appVars, configVars, users, autoplay,
                   room_warning_state, room_warning_task_running, countdown_tasks,
                   unpause_log, syncVars, chatVars, controlVars, listVars, mpvVars,
                   sessionsVars, eofVars, update_log, player_file,
                   player_duration, player_position, pending_file, pending_duration,
                   unpause_action, server_loaded, tx, msg_rx, transport, worker,
                   upgrade_response, serverVars, taskVars, hello_origin, state_log,
                   worker_exit, read_log, wire>>

\* what load_media_by_name leaves for a file name that is no URL, with
\* send_update false: the file is looked up in the media directories and,
\* when found, the player is told to load it, the client's file is set and
\* suppress_next_file_update is raised
load_media_by_name_lowering_the_flag(name, found, current_file, flag) ==
    IF ~found
    THEN [loaded |-> FALSE, file |-> current_file, suppress_next_file_update |-> flag]
    ELSE [loaded |-> TRUE, file |-> Some(name), suppress_next_file_update |-> FALSE]

load_media_by_name(name, found, current_file, flag) ==
    IF ~found
    THEN [loaded |-> FALSE, file |-> current_file, suppress_next_file_update |-> flag]
    ELSE [loaded |-> TRUE, file |-> Some(name), suppress_next_file_update |-> TRUE]

\* handle_set_message for a Set that carries a file name, once the player
\* has reported what it loaded before: the client's file is set,
\* load_media_by_name(state, name, false), evaluate_autoplay
HandleSetFile ==
    /\ loop_pc = "idle"
    /\ connection /= None
    /\ player
    /\ pending_file = None
    /\ pending_duration = None
    /\ \E name \in MediaFiles, found \in BOOLEAN :
          LET load == load_media_by_name(name, found, Some(name),
                                         suppress_next_file_update)
          IN  /\ file' = load.file
              /\ suppress_next_file_update' = load.suppress_next_file_update
              /\ IF load.loaded
                 THEN /\ pending_file' = Some(name)
                      /\ pending_duration' = Some(DurationOf(name))
                      /\ server_loaded' = Some(name)
                 ELSE UNCHANGED <<pending_file, pending_duration, server_loaded>>
    /\ autoplay' = AutoplayOff
    /\ UNCHANGED <<playlistVars, ignoringVars, appVars, configVars, users, ready,
                   room_warning_state, room_warning_task_running, autoplayVars,
                   syncVars, chatVars, controlVars, listVars, extraVars, player_file, player_duration,
                   player_position, last_sent, eof_sent, suppress_unpause_check,
                   unpause_action, pump_ticks, last_tick, connVars, serverVars,
                   taskVars, historyVars>>

\* handle_state_update for a playstate at the position of the player whose
\* pause state is not the player's: the engine has the pause state to settle,
\* nothing else
HandleStateInStep ==
    /\ sync_calls < MaxPumpStateUpdates
    /\ IsSome(player_paused)
    /\ IsSome(player_position)
    /\ HandleStateUpdateFrom({200}, {Unwrap(player_paused)}, {~Unwrap(player_paused)},
                             {0}, {FALSE}, {FALSE}, {20})

\* the player reports the file name of what it was told to load
PlayerReportsFile ==
    /\ IsSome(pending_file)
    /\ player_file' = pending_file
    /\ pending_file' = None
    /\ UNCHANGED <<playlistVars, ignoringVars, appVars, configVars, roomVars,
                   autoplayVars, syncVars, chatVars, controlVars, listVars, extraVars, player_duration,
                   player_position, pending_duration, last_sent, eof_sent,
                   suppress_next_file_update, suppress_unpause_check, unpause_action,
                   pump_ticks, last_tick, server_loaded, connVars, serverVars,
                   taskVars, historyVars>>

\* the player reports the duration of what it was told to load
PlayerReportsDuration ==
    /\ IsSome(pending_duration)
    /\ player_duration' = pending_duration
    /\ pending_duration' = None
    /\ UNCHANGED <<playlistVars, ignoringVars, appVars, configVars, roomVars,
                   autoplayVars, syncVars, chatVars, controlVars, listVars, extraVars, player_file,
                   player_position, pending_file, last_sent, eof_sent,
                   suppress_next_file_update, suppress_unpause_check, unpause_action,
                   pump_ticks, last_tick, server_loaded, connVars, serverVars,
                   taskVars, historyVars>>

\* the user pauses or unpauses at the player
UserTogglesPause ==
    /\ IsSome(player_paused)
    /\ player_paused' = Some(~Unwrap(player_paused))
    /\ unpaused_by' = IF Unwrap(player_paused) THEN "user" ELSE "none"
    /\ UNCHANGED <<playlistVars, ignoringVars, appVars, configVars, roomVars,
                   player_commands, countdown_tasks, unpause_log, syncVars, chatVars,
                   controlVars, listVars, mpvVars, sessionsVars, eofVars, update_log,
                   pumpVars, suppress_unpause_check, connVars,
                   serverVars, taskVars, historyVars>>

\* the user opens another file at the player
UserOpensFile ==
    /\ pending_file = None
    /\ pending_duration = None
    /\ \E name \in MediaFiles :
          /\ Some(name) /= player_file
          /\ pending_file' = Some(name)
          /\ pending_duration' = Some(DurationOf(name))
    /\ server_loaded' = None
    /\ UNCHANGED <<playlistVars, ignoringVars, appVars, configVars, roomVars,
                   autoplayVars, syncVars, chatVars, controlVars, listVars, extraVars, player_file,
                   player_duration, player_position, last_sent, eof_sent,
                   suppress_next_file_update, suppress_unpause_check, unpause_action,
                   pump_ticks, last_tick, connVars, serverVars, taskVars,
                   historyVars>>

\* playback moves on by half a second
PlayerAdvances ==
    /\ player_paused = Some(FALSE)
    /\ IsSome(player_position)
    /\ Unwrap(player_position) < MaxPosition
    /\ player_position' = Some(Unwrap(player_position) + 1)
    /\ UNCHANGED <<playlistVars, ignoringVars, appVars, configVars, roomVars,
                   autoplayVars, syncVars, chatVars, controlVars, listVars, extraVars, player_file,
                   player_duration, pending_file, pending_duration, last_sent,
                   eof_sent, suppress_next_file_update, suppress_unpause_check,
                   unpause_action, pump_ticks, last_tick, server_loaded, connVars,
                   serverVars, taskVars, historyVars>>

\* config.user.unpause_action
UnpauseActions == {"IfAlreadyReady", "IfOthersReady", "IfMinUsersReady", "Always"}

\* a session in progress with a player attached that is paused at the start
\* of a file, which the pump has announced with its state
InitPumpSession ==
    /\ InitPlaylist
    /\ ignoring_on_the_fly = IgnoringOnTheFlyState(0, 0)
    /\ last_state_call = None
    /\ InitChat
    /\ InitControl
    /\ player = TRUE
    /\ ready_at_start = FALSE
    /\ tls_available = TRUE
    /\ autoplay_enabled = FALSE
    /\ \E others_ready \in BOOLEAN :
          /\ users = {RoomUser("alice", Lobby, others_ready, FALSE)}
          /\ unpause_action \in IF others_ready THEN {"IfOthersReady"}
                                ELSE UnpauseActions \ {"IfMinUsersReady"}
    /\ file = Some(1)
    /\ ready \in BOOLEAN
    /\ autoplay = AutoplayOff
    /\ room_warning_state = RoomWarningDefault
    /\ room_warning_task_running = FALSE
    /\ player_paused = Some(TRUE)
    /\ player_commands = << >>
    /\ countdown_tasks = << >>
    /\ unpause_log = << >>
    /\ InitSync
    /\ player_file = Some(1)
    /\ player_duration = Some(DurationOf(1))
    /\ player_position = Some(0)
    /\ pending_file = None
    /\ pending_duration = None
    /\ last_sent = Some(PlayerState(Some(1), Some(0), Some(TRUE), Some(DurationOf(1))))
    /\ eof_sent = FALSE
    /\ suppress_next_file_update = FALSE
    /\ suppress_unpause_check = FALSE
    /\ pump_ticks = 0
    /\ last_tick = None
    /\ server_loaded = None
    /\ list_progress = None
    /\ lists_handled = 0
    /\ InitExtra
    /\ InitConnected

\* the pump with the server changing the file and the pause state and the
\* user pausing and unpausing
NextPump ==
    \/ PumpTick
    \/ HandleSetFile
    \/ HandleStateInStep
    \/ PlayerReportsFile
    \/ PlayerReportsDuration
    \/ UserTogglesPause

SpecPump == InitPumpSession /\ [][NextPump]_vars

\* the same session with the player playing
InitPumpPlaying ==
    /\ InitPlaylist
    /\ ignoring_on_the_fly = IgnoringOnTheFlyState(0, 0)
    /\ last_state_call = None
    /\ InitChat
    /\ InitControl
    /\ player = TRUE
    /\ ready_at_start = FALSE
    /\ tls_available = TRUE
    /\ autoplay_enabled = FALSE
    /\ users = {RoomUser("alice", Lobby, TRUE, FALSE)}
    /\ file = Some(1)
    /\ ready = TRUE
    /\ autoplay = AutoplayOff
    /\ room_warning_state = RoomWarningDefault
    /\ room_warning_task_running = FALSE
    /\ player_paused = Some(FALSE)
    /\ player_commands = << >>
    /\ countdown_tasks = << >>
    /\ unpause_log = << >>
    /\ InitSync
    /\ player_file = Some(1)
    /\ player_duration = Some(DurationOf(1))
    /\ player_position = Some(0)
    /\ pending_file = None
    /\ pending_duration = None
    /\ last_sent \in {None,
                      Some(PlayerState(Some(1), Some(0), Some(FALSE),
                                       Some(DurationOf(1))))}
    /\ eof_sent = FALSE
    /\ suppress_next_file_update = FALSE
    /\ suppress_unpause_check = FALSE
    /\ unpause_action = "IfOthersReady"
    /\ pump_ticks = 0
    /\ last_tick = None
    /\ server_loaded = None
    /\ list_progress = None
    /\ lists_handled = 0
    /\ InitExtra
    /\ InitConnected

\* the pump with the server and the user changing the file while it plays
NextPumpFile ==
    \/ PumpTick
    \/ HandleSetFile
    \/ PlayerReportsFile
    \/ PlayerReportsDuration
    \/ UserOpensFile
    \/ PlayerAdvances

SpecPumpFile == InitPumpPlaying /\ [][NextPumpFile]_vars

(***************************************************************************)
(* A List message arriving while the pump runs                             *)
(* commands/connection.rs, the List arm of handle_server_message           *)
(***************************************************************************)
\* List messages handled in one run
MaxLists == 1

\* the users the server lists: alice ready and bob not, or both ready
ServerLists ==
    {{RoomUser("alice", Lobby, TRUE, FALSE), RoomUser("bob", Lobby, bob_ready, FALSE)} :
         bob_ready \in BOOLEAN}

\* ClientState::clear_users
clear_users(us) == {}

\* the List arm between two calls on the users map: the map it found, the
\* users of the message and those it has yet to add
ListProgress(found, listed, left) ==
    [previous |-> found, complete |-> listed, remaining |-> left]

\* compute_room_warning_state for users who report no file
compute_room_warning_state(us, current_room, current_username) ==
    LET users_in_room == get_users_in_room(us, current_room)
        others_in_room == {user \in users_in_room : user.username /= current_username}
        not_ready_users == {user.username : user \in {u \in users_in_room : ~u.is_ready}}
    IN  IF users_in_room = {}
        THEN RoomWarningDefault
        ELSE [alone |-> others_in_room = {},
              file_differences |-> None,
              not_ready |-> IF others_in_room = {} \/ not_ready_users = {}
                            THEN None
                            ELSE Some(not_ready_users)]

\* update_room_warnings(state, false): the system message when the local
\* user is newly alone, and the warnings stored (the text it shows on the
\* player's screen is no playback command and is left out)
update_room_warnings(us, shown) ==
    LET warnings == compute_room_warning_state(us, room, LocalUsername)
    IN  /\ room_warning_state' = warnings
        /\ events' = events \o shown
                       \o (IF warnings.alone /\ ~room_warning_state.alone
                           THEN <<SystemMessage(<<"You're", "alone", "in", "the", "room">>)>>
                           ELSE << >>)

\* the List arm up to clear_users: the message carries a user list and the
\* users map is emptied
HandleListStart ==
    /\ loop_pc = "idle"
    /\ connection /= None
    /\ lists_handled < MaxLists
    /\ \E list \in ServerLists :
          list_progress' = Some(ListProgress(users, list, list))
    /\ users' = clear_users(users)
    /\ lists_handled' = lists_handled + 1
    /\ loop_pc' = "list_update"
    /\ UNCHANGED <<extraVars, playlistVars, ignoringVars, appVars, configVars, file, ready,
                   autoplay, room_warning_state, room_warning_task_running,
                   player_paused, player_commands, countdown_tasks, unpause_log,
                   syncVars, chatVars, controlVars, pumpVars, suppress_unpause_check,
                   connVars, serverVars, connect_pc, current_message, pump_sends,
                   historyVars>>

\* one turn of the loops over the rooms and users of the message: add_user
\* for a user the map does not hold yet, in the order of the message's maps
HandleListAdd ==
    /\ loop_pc = "list_update"
    /\ IsSome(list_progress)
    /\ \E user \in Unwrap(list_progress).remaining :
          /\ users' = add_user(users, user)
          /\ list_progress' =
                Some([Unwrap(list_progress) EXCEPT !.remaining = @ \ {user}])
    /\ UNCHANGED <<extraVars, playlistVars, ignoringVars, appVars, configVars, file, ready,
                   autoplay, room_warning_state, room_warning_task_running,
                   player_paused, player_commands, countdown_tasks, unpause_log,
                   syncVars, chatVars, controlVars, pumpVars, suppress_unpause_check,
                   lists_handled, connVars, serverVars, taskVars, historyVars>>

\* the List arm after its loops: emit_user_list, evaluate_autoplay and
\* update_room_warnings
HandleListEnd ==
    /\ loop_pc = "list_update"
    /\ IsSome(list_progress)
    /\ Unwrap(list_progress).remaining = {}
    /\ list_progress' = None
    /\ loop_pc' = "idle"
    /\ evaluate_autoplay(users)
    /\ update_room_warnings(users, <<UserListUpdated(users)>>)
    /\ UNCHANGED <<extraVars, playlistVars, ignoringVars, connection, last_hello, hello_sent,
                   last_latency_calculation, last_global_update, configVars, users,
                   file, ready, room_warning_task_running, player_paused,
                   player_commands, unpause_log, syncVars, chatVars, controlVars,
                   pumpVars, suppress_unpause_check, lists_handled, connVars,
                   serverVars, connect_pc, current_message, pump_sends, sends,
                   hello_origin, state_log, worker_exit, read_log, wire>>

\* a session in the lobby with alice and bob, bob not ready, the player
\* paused on a file, the local user ready or not, and unpausing allowed
\* when the others are ready
InitListSession ==
    /\ InitPlaylist
    /\ ignoring_on_the_fly = IgnoringOnTheFlyState(0, 0)
    /\ last_state_call = None
    /\ InitChat
    /\ InitControl
    /\ player = TRUE
    /\ ready_at_start = FALSE
    /\ tls_available = TRUE
    /\ autoplay_enabled = FALSE
    /\ users = {RoomUser("alice", Lobby, TRUE, FALSE),
                RoomUser("bob", Lobby, FALSE, FALSE)}
    /\ unpause_action \in {"IfOthersReady", "Always"}
    /\ file = Some(1)
    /\ ready \in BOOLEAN
    /\ autoplay = AutoplayOff
    /\ room_warning_state = compute_room_warning_state(users, Lobby, LocalUsername)
    /\ room_warning_task_running = FALSE
    /\ player_paused = Some(TRUE)
    /\ player_commands = << >>
    /\ countdown_tasks = << >>
    /\ unpause_log = << >>
    /\ InitSync
    /\ player_file = Some(1)
    /\ player_duration = Some(DurationOf(1))
    /\ player_position = Some(0)
    /\ pending_file = None
    /\ pending_duration = None
    /\ last_sent \in {None,
                      Some(PlayerState(Some(1), Some(0), Some(TRUE), Some(DurationOf(1))))}
    /\ eof_sent = FALSE
    /\ suppress_next_file_update = FALSE
    /\ suppress_unpause_check = FALSE
    /\ pump_ticks = 0
    /\ last_tick = None
    /\ server_loaded = None
    /\ list_progress = None
    /\ lists_handled = 0
    /\ InitExtra
    /\ InitConnected

\* the message loop handling a List while the pump ticks on its own task
\* and the user pauses and unpauses
NextList ==
    \/ HandleListStart
    \/ HandleListAdd
    \/ HandleListEnd
    \/ PumpTick
    \/ UserTogglesPause
    \/ PlayerAdvances

SpecList == InitListSession /\ [][NextList]_vars

(***************************************************************************)
(* player/mpv_ipc.rs: MpvIpc, its write task and read task, and MPV        *)
(***************************************************************************)
\* calls of send_command_async in one run
MaxCalls == 3

\* MpvCommand { command, request_id }
MpvCommand(command, request_id) == [command |-> command, request_id |-> request_id]

\* MpvCommand::observe_property: request_id None
ObserveProperty == MpvCommand("observe_property", None)

\* the commands set_position, set_paused, set_speed and load_file build
AsyncCommands == {"seek", "set_property", "loadfile"}

\* MpvResponse { request_id, .. }: MPV answers a command that names no
\* request_id with request_id 0; serial tells its responses apart
MpvResponse(request_id, serial) == [request_id |-> Some(request_id), serial |-> serial]

\* Result<MpvResponse>
Ok(response) == [ok |-> TRUE, response |-> Some(response)]
Err == [ok |-> FALSE, response |-> None]

\* a call of send_command_async: "allocated" once it took its request_id,
\* "waiting" at rx.await, "returned" with its result
AsyncCall(pc, request_id, command, result) ==
    [pc |-> pc, request_id |-> request_id, command |-> command, result |-> result]

\* send_command_async: *id += 1 under the lock of next_request_id (a u64
\* that starts at 1)
next_id_kept(id) == id
next_id(id) == id + 1

\* send_command_async takes its request_id
AllocateRequestId ==
    /\ Len(mpv_calls) < MaxCalls
    /\ \E command \in AsyncCommands :
          mpv_calls' = Append(mpv_calls,
                              AsyncCall("allocated", next_request_id, command, None))
    /\ next_request_id' = next_id(next_request_id)
    /\ UNCHANGED <<pending_requests, mpv_cmd_rx, mpv_writer, mpv_reader, mpv_open,
                   mpv_inbox, mpv_lines, mpv_answers, appStateVars>>

\* the calls whose oneshot sender pending_requests holds under request_id
Senders(request_id) == {entry.call : entry \in {e \in pending_requests :
                                                    e.request_id = request_id}}

\* a oneshot sender is dropped unsent: rx.await of its call fails
Dropped(calls, dropped) ==
    [i \in DOMAIN calls |->
        IF i \in dropped /\ calls[i].pc /= "returned"
        THEN AsyncCall("returned", calls[i].request_id, calls[i].command, Some(Err))
        ELSE calls[i]]

\* send_command_async from pending_requests.insert on: the sender is stored
\* under the request_id (one stored there before is dropped), and the
\* command is handed to the write task, or the call fails where the write
\* task has gone
RegisterAndSend ==
    /\ \E i \in DOMAIN mpv_calls :
          /\ mpv_calls[i].pc = "allocated"
          /\ LET call == mpv_calls[i]
                 replaced == Senders(call.request_id)
                 sent == mpv_writer = "running"
                 after == [mpv_calls EXCEPT ![i].pc = IF sent THEN "waiting" ELSE "returned",
                                            ![i].result = IF sent THEN None ELSE Some(Err)]
             IN  /\ pending_requests' =
                       {e \in pending_requests : e.request_id /= call.request_id}
                         \cup {[request_id |-> call.request_id, call |-> i]}
                 /\ mpv_calls' = Dropped(after, replaced \ {i})
                 /\ mpv_cmd_rx' = IF sent
                                  THEN Append(mpv_cmd_rx,
                                              MpvCommand(call.command,
                                                         Some(call.request_id)))
                                  ELSE mpv_cmd_rx
    /\ UNCHANGED <<next_request_id, mpv_writer, mpv_reader, mpv_open, mpv_inbox,
                   mpv_lines, mpv_answers, appStateVars>>

\* the write task takes a command and writes it; a failed write ends the
\* task and drops its channel
WriteTask ==
    /\ mpv_writer = "running"
    /\ mpv_cmd_rx /= << >>
    /\ IF mpv_open
       THEN /\ mpv_inbox' = Append(mpv_inbox, Head(mpv_cmd_rx))
            /\ mpv_cmd_rx' = Tail(mpv_cmd_rx)
            /\ UNCHANGED mpv_writer
       ELSE /\ mpv_writer' = "terminated"
            /\ mpv_cmd_rx' = << >>
            /\ UNCHANGED mpv_inbox
    /\ UNCHANGED <<next_request_id, pending_requests, mpv_reader, mpv_open, mpv_lines,
                   mpv_answers, mpv_calls, appStateVars>>

\* MPV answers one of the commands it has read, in the order it likes
MpvAnswers ==
    /\ mpv_open
    /\ \E i \in DOMAIN mpv_inbox :
          LET request_id == IF IsSome(mpv_inbox[i].request_id)
                            THEN Unwrap(mpv_inbox[i].request_id)
                            ELSE 0
          IN  /\ mpv_lines' = Append(mpv_lines, MpvResponse(request_id, mpv_answers + 1))
              /\ mpv_inbox' = SubSeq(mpv_inbox, 1, i - 1)
                                \o SubSeq(mpv_inbox, i + 1, Len(mpv_inbox))
    /\ mpv_answers' = mpv_answers + 1
    /\ UNCHANGED <<next_request_id, pending_requests, mpv_cmd_rx, mpv_writer,
                   mpv_reader, mpv_open, mpv_calls, appStateVars>>

\* MPV quits or closes the IPC socket, commands it had not answered with it
MpvCloses ==
    /\ mpv_open
    /\ mpv_open' = FALSE
    /\ mpv_inbox' = << >>
    /\ UNCHANGED <<next_request_id, pending_requests, mpv_cmd_rx, mpv_writer,
                   mpv_reader, mpv_lines, mpv_answers, mpv_calls, appStateVars>>

\* the read task reads a response: the sender stored under its request_id
\* is removed and given the response
ReadTask ==
    /\ mpv_reader = "running"
    /\ mpv_lines /= << >>
    /\ mpv_lines' = Tail(mpv_lines)
    /\ LET response == Head(mpv_lines)
           request_id == Unwrap(response.request_id)
           receivers == Senders(request_id)
       IN  /\ pending_requests' = {e \in pending_requests : e.request_id /= request_id}
           /\ mpv_calls' =
                 [i \in DOMAIN mpv_calls |->
                     IF i \in receivers /\ mpv_calls[i].pc /= "returned"
                     THEN AsyncCall("returned", mpv_calls[i].request_id,
                                    mpv_calls[i].command, Some(Ok(response)))
                     ELSE mpv_calls[i]]
    /\ UNCHANGED <<next_request_id, mpv_cmd_rx, mpv_writer, mpv_reader, mpv_open,
                   mpv_inbox, mpv_answers, appStateVars>>

\* the read task finds the socket closed and ends; pending_requests, which
\* the MpvIpc holds as well, keeps its senders
ReadTaskEnds ==
    /\ mpv_reader = "running"
    /\ mpv_lines = << >>
    /\ ~mpv_open
    /\ mpv_reader' = "terminated"
    /\ UNCHANGED <<next_request_id, pending_requests, mpv_cmd_rx, mpv_writer, mpv_open,
                   mpv_inbox, mpv_lines, mpv_answers, mpv_calls, appStateVars>>

\* MpvIpc::connect has returned: both tasks run and observe_property is on
\* its way to MPV
InitMpvConnected ==
    /\ InitApp
    /\ InitSessions
    /\ InitEof
    /\ InitUser
    /\ next_request_id = 1
    /\ pending_requests = {}
    /\ mpv_cmd_rx = <<ObserveProperty>>
    /\ mpv_writer = "running"
    /\ mpv_reader = "running"
    /\ mpv_open = TRUE
    /\ mpv_inbox = << >>
    /\ mpv_lines = << >>
    /\ mpv_answers = 0
    /\ mpv_calls = << >>

NextMpv ==
    \/ AllocateRequestId
    \/ RegisterAndSend
    \/ WriteTask
    \/ MpvAnswers
    \/ MpvCloses
    \/ ReadTask
    \/ ReadTaskEnds

SpecMpv == InitMpvConnected /\ [][NextMpv]_vars

\* the tasks of the runtime and MPV take their turns; when MPV closes the
\* socket is its own affair
SpecMpvLive ==
    /\ SpecMpv
    /\ WF_vars(RegisterAndSend)
    /\ WF_vars(WriteTask)
    /\ WF_vars(MpvAnswers)
    /\ WF_vars(ReadTask)
    /\ WF_vars(ReadTaskEnds)

(***************************************************************************)
(* Sessions one after another: commands/connection.rs                      *)
(***************************************************************************)
\* calls of connect_to_server in one run
MaxConnects == 3

\* connect_to_server called again, up to Connection::new: is_connected finds
\* no connection stored, so a new session begins; the message loop of the
\* session before, unless it has run its closure handler, lives on
Reconnect ==
    /\ connect_pc = "done"
    /\ connection = None
    /\ connects < MaxConnects
    /\ connects' = connects + 1
    /\ old_loops' = IF loop_pc = "closed" THEN old_loops ELSE old_loops + 1
    /\ connect_pc' = "start"
    /\ loop_pc' = "not_started"
    /\ current_message' = None
    /\ tx' = FALSE
    /\ cmd_rx' = << >>
    /\ msg_rx' = << >>
    /\ transport' = "Empty"
    /\ worker' = "not_started"
    /\ upgrade_response' = "none"
    /\ lines_read' = 0
    /\ sends' = << >>
    /\ wire' = << >>
    /\ read_log' = << >>
    /\ state_log' = << >>
    /\ hello_origin' = None
    /\ worker_exit' = "none"
    /\ UNCHANGED <<playlistVars, ignoringVars, appVars, configVars, roomVars,
                   autoplayVars, syncVars, chatVars, controlVars, pumpVars,
                   suppress_unpause_check, listVars, mpvVars, eofVars, userVars, warning_tasks,
                   pump_sends>>

\* the message loop of an earlier session finds its channel closed and
\* runs handle_connection_closed: it takes whatever connection is stored
OldLoopEnds ==
    /\ old_loops > 0
    /\ old_loops' = old_loops - 1
    /\ IF connection = None
       THEN UNCHANGED <<connection, events, playlistVars, roomVars>>
       ELSE /\ connection' = None
            /\ ClearSession
            /\ events' = events \o <<UserListEmptied, PlaylistEmptied,
                                      ConnectionStatus(FALSE), TlsStatus("unknown"),
                                      SystemMessage(DisconnectedFromServer)>>
    /\ UNCHANGED <<ignoringVars, last_hello, hello_sent, last_latency_calculation,
                   last_global_update, configVars, autoplayVars, syncVars, chatVars,
                   controlVars, pumpVars, suppress_unpause_check, listVars, mpvVars, eofVars, userVars,
                   warning_tasks, connects, connVars, serverVars, taskVars,
                   historyVars>>

\* a room-warning task wakes from its ticker: without a connection it
\* lowers the flag and ends, with one it refreshes the warnings
WarningTick ==
    /\ \E j \in DOMAIN warning_tasks :
          /\ warning_tasks[j] = "sleeping"
          /\ IF connection = None
             THEN /\ room_warning_task_running' = FALSE
                  /\ warning_tasks' = [warning_tasks EXCEPT ![j] = "ended"]
                  /\ UNCHANGED room_warning_state
             ELSE /\ room_warning_state' =
                        compute_room_warning_state(users, room, LocalUsername)
                  /\ UNCHANGED <<room_warning_task_running, warning_tasks>>
    /\ UNCHANGED <<playlistVars, ignoringVars, appVars, configVars, users, file, ready,
                   autoplay, autoplayVars, syncVars, chatVars, controlVars, pumpVars,
                   suppress_unpause_check, listVars, mpvVars, eofVars, userVars, old_loops, connects,
                   connVars, serverVars, taskVars, historyVars>>

\* the user connects, disconnects and connects again, the server closes the
\* stream when it likes, and the tasks of each session run on
NextReconnect ==
    \/ ConnectTcp
    \/ ConnectSetup
    \/ WorkerSend
    \/ WorkerDisconnect
    \/ WorkerEof
    \/ MessageLoopEnd
    \/ DisconnectFromServer
    \/ Reconnect
    \/ OldLoopEnds
    \/ WarningTick

SpecReconnect == InitDefault /\ [][NextReconnect]_vars

(***************************************************************************)
(* The end of a file: player/controller.rs                                 *)
(***************************************************************************)
\* config.user: shared_playlist_enabled and loop_at_end_of_playlist as
\* SyncplayConfig::default sets them
shared_playlist_enabled == TRUE
loop_at_end_of_playlist == FALSE

\* Playlist::next_with_loop: the item after the current one, the first item
\* again at the end of a looping playlist, nothing at the end otherwise
next_with_loop(pl, looping) ==
    IF pl.items = << >> THEN pl
    ELSE IF IsSome(pl.current_index) /\ Unwrap(pl.current_index) + 1 < Len(pl.items)
    THEN Playlist(pl.items, Some(Unwrap(pl.current_index) + 1))
    ELSE IF pl.current_index = None \/ looping
    THEN Playlist(pl.items, Some(0))
    ELSE pl

\* playlist-updated with the items and the current index
PlaylistUpdated(pl) ==
    [event |-> "playlist-updated", items |-> pl.items, current_index |-> pl.current_index]

\* Set.playlistIndex { user, index }
PlaylistIndexUpdate(index) ==
    [type |-> "Set", playlist_index |-> [user |-> Some(LocalUsername),
                                         index |-> Some(index)]]

\* handle_end_of_file called by `caller`: with the shared playlist on, the
\* playlist moves to its next item, playlist-updated is published,
\* Set.playlistIndex sent and the item loaded with load_media_by_name(state,
\* name, true), which sends the file the player reports at that moment
handle_end_of_file(caller, sent_before) ==
    LET pl == next_with_loop(ThePlaylist, loop_at_end_of_playlist)
        moved == shared_playlist_enabled /\ pl /= ThePlaylist
        name == pl.items[Unwrap(pl.current_index) + 1]
    IN  /\ eof_log' = Append(eof_log, [caller |-> caller,
                                       current_index |-> IF moved THEN pl.current_index
                                                         ELSE current_index])
        /\ IF moved
           THEN /\ items' = pl.items
                /\ current_index' = pl.current_index
                /\ Uncalled
                /\ events' = Append(events, PlaylistUpdated(pl))
                /\ \E found \in BOOLEAN :
                      IF found
                      THEN /\ pending_file' = Some(name)
                           /\ pending_duration' = Some(DurationOf(name))
                           /\ file' = IF IsSome(player_file) THEN player_file
                                      ELSE Some(name)
                           /\ Sending(sent_before
                                        \o <<PlaylistIndexUpdate(Unwrap(pl.current_index))>>
                                        \o (IF IsSome(player_file)
                                            THEN <<FileUpdate(Unwrap(player_file),
                                                              player_duration)>>
                                            ELSE << >>))
                      ELSE /\ Sending(sent_before
                                        \o <<PlaylistIndexUpdate(Unwrap(pl.current_index))>>)
                           /\ UNCHANGED <<pending_file, pending_duration, file>>
           ELSE /\ Sending(sent_before)
                /\ UNCHANGED <<playlistVars, events, pending_file, pending_duration, file>>

\* a tick of the pump that finds the player in the last 0.2 s of the file,
\* paused or playing as it last saw it and on the same file: the position
\* is sent when it moved, and unless eof_sent is up it is raised and
\* handle_end_of_file called
PumpTickAtEnd ==
    /\ player
    /\ connection /= None
    /\ pump_ticks < MaxPumpTicks
    /\ pump_ticks' = pump_ticks + 1
    /\ AtEnd(get_state)
    /\ IsSome(last_sent)
    /\ ~file_info_changed(get_state, last_sent)
    /\ Unwrap(last_sent).paused = get_state.paused
    /\ LET sending == should_send_state(get_state, last_sent)
           state_messages == IF sending /\ IsSome(to_play_state(get_state))
                             THEN <<StateMessage(to_play_state(get_state), None, None)>>
                             ELSE << >>
       IN  /\ last_sent' = IF sending THEN Some(get_state) ELSE last_sent
           /\ IF eof_sent
              THEN /\ Sending(state_messages)
                   /\ UNCHANGED <<playlistVars, events, pending_file, pending_duration,
                                  file, eof_log, eof_sent>>
              ELSE /\ eof_sent' = TRUE
                   /\ handle_end_of_file("pump", state_messages)
    /\ UNCHANGED <<ignoringVars, connection, last_hello, hello_sent,
                   last_latency_calculation, last_global_update, configVars, users,
                   ready, autoplay, room_warning_state, room_warning_task_running,
                   autoplayVars, syncVars, chatVars, controlVars, listVars, mpvVars,
                   sessionsVars, userVars, mpv_events, files_ended, player_file,
                   player_duration,
                   player_position, suppress_next_file_update, suppress_unpause_check,
                   unpause_action, last_tick, server_loaded, tx, msg_rx, transport,
                   worker, upgrade_response, serverVars, taskVars, hello_origin,
                   state_log, worker_exit, read_log, wire>>

\* the player plays the file to its end: MPV emits end-file with reason eof
\* and reports no further position
PlayerEndsFile ==
    /\ files_ended = 0
    /\ pending_file = None
    /\ pending_duration = None
    /\ player_paused = Some(FALSE)
    /\ AtEnd(get_state)
    /\ files_ended' = files_ended + 1
    /\ mpv_events' = Append(mpv_events, "end-file-eof")
    /\ UNCHANGED <<playlistVars, ignoringVars, appVars, configVars, roomVars,
                   autoplayVars, syncVars, chatVars, controlVars, pumpVars,
                   suppress_unpause_check, listVars, mpvVars, sessionsVars, userVars,
                   eof_log,
                   connVars, serverVars, taskVars, historyVars>>

\* spawn_event_loop takes EndFile { reason: Eof } and calls
\* handle_end_of_file
EventLoopEndFile ==
    /\ mpv_events /= << >>
    /\ mpv_events' = Tail(mpv_events)
    /\ handle_end_of_file("event", << >>)
    /\ UNCHANGED <<ignoringVars, connection, last_hello, hello_sent,
                   last_latency_calculation, last_global_update, configVars, users,
                   ready, autoplay, room_warning_state, room_warning_task_running,
                   autoplayVars, syncVars, chatVars, controlVars, listVars, mpvVars,
                   sessionsVars, userVars, files_ended, player_file, player_duration,
                   player_position, last_sent, eof_sent, suppress_next_file_update,
                   suppress_unpause_check, unpause_action, pump_ticks, last_tick,
                   server_loaded, tx, msg_rx, transport, worker, upgrade_response,
                   serverVars, taskVars, hello_origin, state_log, worker_exit,
                   read_log, wire>>

\* the player has opened the file it was told to load and reports its
\* name, its duration and the position at its start
PlayerStartsFile ==
    /\ IsSome(pending_file)
    /\ IsSome(pending_duration)
    /\ player_file' = pending_file
    /\ player_duration' = pending_duration
    /\ player_position' = Some(0)
    /\ pending_file' = None
    /\ pending_duration' = None
    /\ UNCHANGED <<playlistVars, ignoringVars, appVars, configVars, roomVars,
                   autoplayVars, syncVars, chatVars, controlVars, listVars, extraVars,
                   last_sent, eof_sent, suppress_next_file_update,
                   suppress_unpause_check, unpause_action, pump_ticks, last_tick,
                   server_loaded, connVars, serverVars, taskVars, historyVars>>

\* the first of three items plays in its last 0.2 s; the pump has or has
\* not yet sent that position
InitEofSession ==
    /\ items = <<1, 2, 3>>
    /\ current_index = Some(0)
    /\ last_playlist_call = None
    /\ ignoring_on_the_fly = IgnoringOnTheFlyState(0, 0)
    /\ last_state_call = None
    /\ InitChat
    /\ InitControl
    /\ InitExtra
    /\ player = TRUE
    /\ ready_at_start = FALSE
    /\ tls_available = TRUE
    /\ autoplay_enabled = FALSE
    /\ users = {RoomUser("alice", Lobby, TRUE, FALSE)}
    /\ unpause_action = "IfOthersReady"
    /\ file = Some(1)
    /\ ready = TRUE
    /\ autoplay = AutoplayOff
    /\ room_warning_state = RoomWarningDefault
    /\ room_warning_task_running = FALSE
    /\ player_paused = Some(FALSE)
    /\ player_commands = << >>
    /\ countdown_tasks = << >>
    /\ unpause_log = << >>
    /\ InitSync
    /\ player_file = Some(1)
    /\ player_duration = Some(DurationOf(1))
    /\ player_position = Some(DurationOf(1))
    /\ pending_file = None
    /\ pending_duration = None
    /\ \E sent \in {DurationOf(1) - 1, DurationOf(1)} :
          last_sent = Some(PlayerState(Some(1), Some(sent), Some(FALSE),
                                       Some(DurationOf(1))))
    /\ eof_sent = FALSE
    /\ suppress_next_file_update = FALSE
    /\ suppress_unpause_check = FALSE
    /\ pump_ticks = 0
    /\ last_tick = None
    /\ server_loaded = None
    /\ list_progress = None
    /\ lists_handled = 0
    /\ InitConnected

\* the file ends while the pump ticks and the event loop waits for the
\* player's events
NextEof ==
    \/ PumpTickAtEnd
    \/ PumpTick
    \/ PlayerEndsFile
    \/ EventLoopEndFile
    \/ PlayerStartsFile
    \/ WorkerSend

SpecEof == InitEofSession /\ [][NextEof]_vars

(***************************************************************************)
(* The playlist command of the shell: commands/playlist.rs                 *)
(***************************************************************************)
\* the calls of update_playlist in a run
MaxUpdates == 2

\* the actions update_playlist is called with; "shuffle" is none it knows
UpdateActions == {"add", "remove", "next", "previous", "clear", "shuffle"}

\* the filename argument: nothing, or a string, written as the number whose
\* numeral it is; a file name for "add", an index for "remove"
UpdateArguments == {None} \cup {Some(n) : n \in -1..NumFiles}

\* index_str.parse::<usize>()
parse_usize(n) == IF n >= 0 THEN Some(n) ELSE None

\* Set.playlistChange { user, files }
PlaylistChangeMessage(files) ==
    [type |-> "Set", playlist_change |-> [user |-> Some(LocalUsername),
                                          files |-> files]]

\* the match of update_playlist on the action: the playlist it leaves and
\* whether it went on or returned an error
update_playlist_match(pl, action, filename) ==
    CASE action = "add" ->
            IF IsSome(filename)
            THEN [ok |-> TRUE, playlist |-> add_item(pl, Unwrap(filename))]
            ELSE [ok |-> FALSE, playlist |-> pl]
      [] action = "remove" ->
            IF IsSome(filename) /\ IsSome(parse_usize(Unwrap(filename)))
            THEN [ok |-> TRUE,
                  playlist |-> remove_item(pl, Unwrap(parse_usize(Unwrap(filename))))]
            ELSE [ok |-> FALSE, playlist |-> pl]
      [] action = "next" -> [ok |-> TRUE, playlist |-> next(pl)]
      [] action = "previous" -> [ok |-> TRUE, playlist |-> previous(pl)]
      [] action = "clear" -> [ok |-> TRUE, playlist |-> clear(pl)]
      [] OTHER -> [ok |-> FALSE, playlist |-> pl]

\* send_to_server: an error without a connection or when Connection::send
\* fails
send_to_server_ok == connection /= None /\ CanSend

\* update_playlist(action, filename): the match changes the playlist,
\* Set.playlistChange is sent for add, remove and clear and
\* Set.playlistIndex for a current index that changed, each with `?`, the
\* current item is loaded with load_media_by_name(state, name, true) and
\* playlist-updated published
UpdatePlaylist ==
    /\ Len(update_log) < MaxUpdates
    /\ \E action \in UpdateActions, filename \in UpdateArguments, found \in BOOLEAN :
          LET matched == update_playlist_match(ThePlaylist, action, filename)
              pl == matched.playlist
              change == IF action \in {"add", "remove", "clear"}
                        THEN <<PlaylistChangeMessage(pl.items)>> ELSE << >>
              moved == pl.current_index /= current_index /\ IsSome(pl.current_index)
              index == IF moved THEN <<PlaylistIndexUpdate(Unwrap(pl.current_index))>>
                       ELSE << >>
              returned_ok == /\ matched.ok
                             /\ (change \o index = << >> \/ send_to_server_ok)
              loads == returned_ok /\ moved /\ player /\ found
              name == pl.items[Unwrap(pl.current_index) + 1]
              file_update == IF loads /\ IsSome(player_file)
                             THEN <<FileUpdate(Unwrap(player_file), player_duration)>>
                             ELSE << >>
          IN  \* the arguments tried: a filename that "next", "previous" and
              \* "clear" would not look at is left out, and "add" gets the
              \* name of a file while the playlist has room
              /\ action \in {"next", "previous", "clear"} => filename = None
              /\ (action = "add" /\ IsSome(filename)) =>
                    (Unwrap(filename) \in Files /\ Len(items) < MaxItems)
              /\ items' = pl.items
              /\ current_index' = pl.current_index
              /\ Uncalled
              /\ update_log' = Append(update_log,
                                      [action |-> action, filename |-> filename,
                                       connected |-> send_to_server_ok,
                                       before |-> ThePlaylist, after |-> pl,
                                       result |-> IF returned_ok THEN "Ok" ELSE "Err"])
              /\ IF matched.ok /\ send_to_server_ok
                 THEN Sending(change \o index \o file_update)
                 ELSE UNCHANGED <<cmd_rx, sends>>
              /\ events' = IF returned_ok THEN Append(events, PlaylistUpdated(pl))
                           ELSE events
              /\ IF loads
                 THEN /\ pending_file' = Some(name)
                      /\ pending_duration' = Some(DurationOf(name))
                      /\ file' = IF IsSome(player_file) THEN player_file ELSE Some(name)
                 ELSE UNCHANGED <<pending_file, pending_duration, file>>
    /\ UNCHANGED <<ignoringVars, connection, last_hello, hello_sent,
                   last_latency_calculation, last_global_update, configVars, users,
                   ready, autoplay, room_warning_state, room_warning_task_running,
                   autoplayVars, syncVars, chatVars, controlVars, listVars, mpvVars,
                   sessionsVars, eofVars, unpaused_by, player_file, player_duration,
                   player_position, last_sent, eof_sent, suppress_next_file_update,
                   suppress_unpause_check, unpause_action, pump_ticks, last_tick,
                   server_loaded, tx, msg_rx, transport, worker, upgrade_response,
                   serverVars, taskVars, hello_origin, state_log, worker_exit,
                   read_log, wire>>

\* update_playlist called in a session and after the user has disconnected
NextUpdate ==
    \/ UpdatePlaylist
    \/ DisconnectFromServer
    \/ WorkerSend
    \/ WorkerDisconnect
    \/ PlayerStartsFile

SpecUpdate == InitEofSession /\ [][NextUpdate]_vars






\* add_message, called by add_user_message, add_system_message,
\* add_server_message and add_error_message
AddMessage ==
    /\ Len(added) < MaxChatAdds
    /\ \E message \in ChatMessages :
          /\ chat_messages' = add_message(chat_messages, max_messages, message)
          /\ added' = Append(added, message)
    /\ UNCHANGED <<max_messages, controlVars, pumpVars, suppress_unpause_check, listVars, extraVars,
                   playlistVars, ignoringVars, appVars,
                   configVars, roomVars, autoplayVars, syncVars, connVars, serverVars,
                   taskVars, historyVars>>

\* ChatManager::with_max_messages(capacity), in an application that has
\* just been built
InitChatManager ==
    /\ InitPlaylist
    /\ ignoring_on_the_fly = IgnoringOnTheFlyState(0, 0)
    /\ last_state_call = None
    /\ chat_messages = << >>
    /\ max_messages \in 0..MaxChatCapacity
    /\ added = << >>
    /\ InitControl
    /\ InitPump
    /\ InitSession
    /\ InitDefaultConfig

NextChat ==
    \/ AddMessage

SpecChat == InitChatManager /\ [][NextChat]_vars

NextPlaylist ==
    \/ SetItems
    \/ AddItem
    \/ RemoveItem
    \/ SetCurrentIndex
    \/ PlaylistNext
    \/ PlaylistPrevious
    \/ PlaylistClear
    \/ Reorder

SpecPlaylist == InitDefault /\ [][NextPlaylist]_vars

\* the counters are drawn from every pair of values: send_state_message is
\* checked as a function of the counters it finds
InitIgnoring ==
    /\ InitPlaylist
    /\ ignoring_on_the_fly \in
          {IgnoringOnTheFlyState(s, c) : s \in Counters, c \in Counters}
    /\ last_state_call = None
    /\ InitChat
    /\ InitControl
    /\ InitPump
    /\ InitSession
    /\ InitDefaultConfig

NextIgnoring ==
    \/ IgnUpdate
    \/ IgnSendState

SpecIgnoring == InitIgnoring /\ [][NextIgnoring]_vars

(***************************************************************************)
(* C1: after any sequence of set_items, add_item, remove_item,             *)
(* set_current_index, reorder, next, previous and clear, current_index is  *)
(* None exactly when the item list is empty, and otherwise                 *)
(* 0 <= current_index < len.                                               *)
(***************************************************************************)
C1_CurrentIndexInvariant ==
    /\ (current_index = None) <=> (items = << >>)
    /\ IsSome(current_index) =>
          /\ 0 <= Unwrap(current_index)
          /\ Unwrap(current_index) < Len(items)

\* the current item was removed from the end of a longer list, and the
\* index was clamped to the new last item
C1_Witness ==
    /\ Len(items) = 2
    /\ current_index = Some(1)
    /\ items[1] /= items[2]

(***************************************************************************)
(* C3: a State message built by send_state_message omits the supplied      *)
(* playstate exactly when, at the moment of the call, the client ignoring  *)
(* counter is greater than 0 and the server ignoring counter is 0; in      *)
(* every other counter state the supplied playstate is sent unchanged.     *)
(***************************************************************************)
C3_PlaystateSuppression ==
    IsSome(last_state_call) =>
        LET call == Unwrap(last_state_call)
        IN  IF call.ignoring.client > 0 /\ call.ignoring.server = 0
            THEN call.message.playstate = None
            ELSE call.message.playstate = call.playstate

\* a playstate was supplied while client > 0 and server = 0, and was left out
C3_Witness ==
    /\ IsSome(last_state_call)
    /\ Unwrap(last_state_call).ignoring.client > 0
    /\ Unwrap(last_state_call).ignoring.server = 0
    /\ IsSome(Unwrap(last_state_call).playstate)
    /\ Unwrap(last_state_call).message.playstate = None

\* a playstate was supplied while both counters were set, and was sent
C3_WitnessBothSet ==
    /\ IsSome(last_state_call)
    /\ Unwrap(last_state_call).ignoring.client > 0
    /\ Unwrap(last_state_call).ignoring.server > 0
    /\ IsSome(Unwrap(last_state_call).message.playstate)


(***************************************************************************)
(* C2: after the client processes a server State carrying                  *)
(* ignoringOnTheFly.server = n (n > 0), the reply it sends contains        *)
(* ignoringOnTheFly.server = n, the local server counter is 0 right after  *)
(* that send, and no other outbound State carries a server counter: a      *)
(* reply to a State without the counter has none, and the pump's State     *)
(* messages have none.                                                     *)
(***************************************************************************)
C2_ServerCounterEchoedOnce ==
    /\ \A i \in DOMAIN state_log :
          IsSome(state_log[i].reply) =>
              LET received == state_log[i].message.ignoring_on_the_fly
                  replied == Unwrap(state_log[i].reply).ignoring_on_the_fly
              IN  IF IsSome(received)
                  THEN replied = Some(IgnoringInfo(Unwrap(received).server, None))
                  ELSE replied = None
    /\ loop_pc /= "state_update" => ignoring_on_the_fly.server = 0
    /\ Cardinality({i \in DOMAIN sends :
                       /\ sends[i].type = "State"
                       /\ IsSome(sends[i].ignoring_on_the_fly)})
         = Cardinality({i \in DOMAIN state_log :
                       /\ IsSome(state_log[i].reply)
                       /\ IsSome(state_log[i].message.ignoring_on_the_fly)})

\* a State with server = 2 was answered with server = 2, the next State,
\* without a counter, was answered without one, and the counter is 0
C2_Witness ==
    /\ Len(state_log) = 2
    /\ state_log[1].message.ignoring_on_the_fly = Some(IgnoringInfo(Some(2), None))
    /\ IsSome(state_log[1].reply)
    /\ Unwrap(state_log[1].reply).ignoring_on_the_fly = Some(IgnoringInfo(Some(2), None))
    /\ state_log[2].message.ignoring_on_the_fly = None
    /\ IsSome(state_log[2].reply)
    /\ Unwrap(state_log[2].reply).ignoring_on_the_fly = None
    /\ ignoring_on_the_fly.server = 0

\* the State lines read so far
StatesReceived == {i \in DOMAIN read_log : read_log[i].kind = "message"}

\* the State messages whose handling is complete
StatesHandled ==
    Cardinality(StatesReceived) - Len(msg_rx)
        - (IF loop_pc = "state_update" THEN 1 ELSE 0)

\* the latencyCalculation a State message carries
LatencyOf(message) ==
    IF IsSome(message.ping) THEN Unwrap(message.ping).latency_calculation ELSE None

\* the replies handed to the connection: the State messages with a ping
Replies == {i \in DOMAIN sends : sends[i].type = "State" /\ IsSome(sends[i].ping)}

(***************************************************************************)
(* C4, as stated: every State message the client has handled was answered  *)
(* with exactly one outbound State echoing the received                    *)
(* ping.latencyCalculation.                                                *)
(***************************************************************************)
C4_EveryStateAnswered ==
    /\ Len(state_log) = StatesHandled
    /\ \A i \in DOMAIN state_log :
          /\ IsSome(state_log[i].reply)
          /\ Unwrap(state_log[i].reply).ping =
                Some(PingInfo(LatencyOf(state_log[i].message)))
    /\ Cardinality(Replies) = Len(state_log)

(***************************************************************************)
(* C4, amended: every State message handled while a connection is stored   *)
(* and its worker still takes commands was answered with exactly one       *)
(* outbound State echoing the received ping.latencyCalculation, with or    *)
(* without a playstate and with or without a player; a State handled after *)
(* the connection was taken away or the worker ended has no answer.        *)
(***************************************************************************)
C4_StateAnsweredWhileConnected ==
    /\ Len(state_log) = StatesHandled
    /\ \A i \in DOMAIN state_log :
          IF state_log[i].connected
          THEN /\ IsSome(state_log[i].reply)
               /\ Unwrap(state_log[i].reply).ping =
                     Some(PingInfo(LatencyOf(state_log[i].message)))
          ELSE state_log[i].reply = None
    /\ Cardinality(Replies) =
          Cardinality({i \in DOMAIN state_log : state_log[i].connected})

\* with a player attached, a State with a playstate and one without were
\* both answered, each echoing the latencyCalculation it carried
C4_Witness ==
    /\ player
    /\ Len(state_log) = 2
    /\ IsSome(state_log[1].message.playstate)
    /\ state_log[1].message.ping = Some(PingInfo(Some(1)))
    /\ state_log[1].connected
    /\ Unwrap(state_log[1].reply).ping = Some(PingInfo(Some(1)))
    /\ state_log[2].message.playstate = None
    /\ state_log[2].message.ping = None
    /\ state_log[2].connected
    /\ Unwrap(state_log[2].reply).ping = Some(PingInfo(None))

\* the TLS request was the first message handed to the connection
TlsRequested == sends /= << >> /\ sends[1] = TLSMessage(Some("send"))

\* the server's answers to the TLS request read so far
TlsAnswersRead ==
    {i \in DOMAIN read_log :
        /\ read_log[i].kind = "message"
        /\ \/ read_log[i].message.type = "TLS"
           \/ /\ read_log[i].message.type = "Error"
              /\ Contains(read_log[i].message.message, "startTLS")}

\* positions of Hello on the stream
HelloWritten == {i \in DOMAIN wire : wire[i].message = HelloMessage}

(***************************************************************************)
(* C5: when the client has asked for startTLS, Hello is sent only by the   *)
(* handling of the server's answer.  For "true" the transport was upgraded *)
(* before Hello was handed over, tls-status "enabled" was the last status  *)
(* published, and Hello and every later Send are written to the TLS        *)
(* stream.  For "false" the transport was not upgraded, tls-status         *)
(* "unsupported" was the last status published, and Hello is written to    *)
(* the plaintext stream.                                                   *)
(***************************************************************************)
C5_HelloAfterTlsAnswer ==
    (TlsRequested /\ IsSome(hello_origin)) =>
        LET origin == Unwrap(hello_origin)
        IN  /\ origin.site \in {"tls_true", "tls_false", "tls_failed", "error"}
            /\ TlsAnswersRead /= {}
            /\ origin.site = "tls_true" =>
                  /\ origin.transport = "Tls"
                  /\ origin.events[Len(origin.events)] = TlsStatus("enabled")
                  /\ \A i \in HelloWritten :
                        \A j \in i..Len(wire) : wire[j].via = "Tls"
            /\ origin.site = "tls_false" =>
                  /\ origin.transport = "Plain"
                  /\ origin.events[Len(origin.events)] = TlsStatus("unsupported")
                  /\ \A i \in HelloWritten : wire[i].via = "Plain"

\* the server accepted, the transport was upgraded, and Hello and the
\* message after it were written to the TLS stream
C5_Witness ==
    /\ TlsRequested
    /\ IsSome(hello_origin)
    /\ Unwrap(hello_origin).site = "tls_true"
    /\ \E i \in HelloWritten : i < Len(wire) /\ wire[i + 1].via = "Tls"

\* the server declined, and Hello was written to the plaintext stream
C5_WitnessDeclined ==
    /\ TlsRequested
    /\ IsSome(hello_origin)
    /\ Unwrap(hello_origin).site = "tls_false"
    /\ \E i \in HelloWritten : wire[i].via = "Plain"

(***************************************************************************)
(* C6: when TLS is not available locally, connect_to_server sends the      *)
(* Hello immediately: once it has returned, Hello is the first message     *)
(* handed to the connection.                                               *)
(***************************************************************************)
C6_HelloFirstWithoutTls ==
    (connect_pc = "done" /\ ~tls_available) =>
        /\ hello_sent
        /\ sends /= << >>
        /\ sends[1] = HelloMessage

\* the TLS handshake failed after the server answered "true"
HandshakeFailed ==
    \/ upgrade_response = "err"
    \/ \E i \in DOMAIN events :
          /\ events[i] = TlsStatus("unsupported")
          /\ \E j \in DOMAIN read_log :
                /\ read_log[j].kind = "message"
                /\ read_log[j].message = TLSMessage(Some("true"))
          /\ IsSome(hello_origin)
          /\ Unwrap(hello_origin).site = "tls_failed"

(***************************************************************************)
(* C7: if the TLS handshake fails after the server answered "true", the    *)
(* session survives: the worker keeps the plaintext stream and does not    *)
(* end for want of a transport, so that the Hello sent after tls-status    *)
(* "unsupported" can be written to it.                                     *)
(***************************************************************************)
C7_SessionSurvivesHandshakeFailure ==
    HandshakeFailed =>
        /\ transport = "Plain"
        /\ worker_exit \notin {"send_error", "transport_empty"}

(***************************************************************************)
(* C8: a server Error whose text contains "startTLS" is not shown to the   *)
(* user as an error chat message.                                          *)
(***************************************************************************)
C8_StartTlsErrorNotShown ==
    \A i \in DOMAIN events :
        events[i].event = "chat-message-received" =>
            ~Contains(events[i].message, "startTLS")

(***************************************************************************)
(* C9: a malformed inbound line (invalid JSON or unknown top-level tag) is *)
(* skipped without ending the session: the transport worker does not end   *)
(* because of it.                                                          *)
(***************************************************************************)
C9_MalformedLineSkipped ==
    (\E i \in DOMAIN read_log : read_log[i].kind /= "message") =>
        worker_exit /= "decode_error"

\* the messages written to the stream, in order
Written == [i \in DOMAIN wire |-> wire[i].message]

(***************************************************************************)
(* C10: messages passed to Connection::send are written to the stream in   *)
(* the order the send calls were made, also when an UpgradeTls command was *)
(* queued between them: what has been written is a prefix of what was      *)
(* sent.                                                                   *)
(***************************************************************************)
C10_SendsWrittenInOrder ==
    /\ Len(wire) <= Len(sends)
    /\ Written = SubSeq(sends, 1, Len(wire))

\* the pump's State was queued before the upgrade and Hello after it: the
\* State was written to the plaintext stream and Hello to the TLS stream
C10_Witness ==
    /\ Len(wire) >= 3
    /\ wire[2].message.type = "State"
    /\ wire[2].via = "Plain"
    /\ wire[3].message = HelloMessage
    /\ wire[3].via = "Tls"


\* the worker left its loop because the stream ended or failed
WorkerEndedByStream ==
    worker_exit \in {"eof", "decode_error", "send_error", "transport_empty"}

\* the disconnect clean-up has run: no connection is stored and
\* connection-status false was published
CleanedUp ==
    /\ connection = None
    /\ \E i \in DOMAIN events : events[i] = ConnectionStatus(FALSE)

SessionCleared ==
    /\ connection = None
    /\ users = {}
    /\ items = << >>
    /\ current_index = None
    /\ file = None
    /\ ready = FALSE
    /\ autoplay = AutoplayOff
    /\ room_warning_state = RoomWarningDefault
    /\ room_warning_task_running = FALSE

\* the system chat line "Disconnected from server" was posted
DisconnectedPosted ==
    \E i \in DOMAIN events : events[i] = SystemMessage(DisconnectedFromServer)

(***************************************************************************)
(* C12: the disconnect clean-up, on the transport-closure path and on the  *)
(* user-initiated path alike, leaves no connection, no users, an empty     *)
(* playlist with no current index, no file, ready false, the countdown     *)
(* inactive and the room warnings reset, and posts the system chat line    *)
(* "Disconnected from server".                                             *)
(***************************************************************************)
C12_CleanupClearsAndPosts ==
    connection = None => (SessionCleared /\ DisconnectedPosted)

\* the state is cleared on both paths, whether or not the line is posted
C12_CleanupClears == connection = None => SessionCleared

\* the user disconnected a session with people, a file and a countdown
C12_WitnessUserPath ==
    /\ SessionCleared
    /\ worker_exit = "disconnect"
    /\ loop_pc = "closed"
    /\ ~DisconnectedPosted


(***************************************************************************)
(* C13: the countdown commands set_paused(false) on the fourth check of    *)
(* the task that runs it: started at 3, the task checks the conditions     *)
(* once per second and unpauses when they held at each of its four checks. *)
(***************************************************************************)
C13_UnpauseOnFourthCheck ==
    \A i \in DOMAIN unpause_log :
        unpause_log[i].checks = AUTOPLAY_DELAY_SECONDS + 1

\* a single countdown ran undisturbed and unpaused on its fourth check
C13_WitnessFourthCheck ==
    /\ Len(countdown_tasks) = 1
    /\ unpause_log = <<[task |-> 1, checks |-> AUTOPLAY_DELAY_SECONDS + 1]>>
    /\ player_commands = <<SetPausedCommand(FALSE)>>

\* a countdown was cancelled and started again while the first task slept:
\* both tasks count the same countdown down, and the player is unpaused by
\* a task on an earlier check than its fourth
C13_WitnessTwoTasks ==
    /\ Len(countdown_tasks) = 2
    /\ \E i \in DOMAIN unpause_log :
          unpause_log[i].checks < AUTOPLAY_DELAY_SECONDS + 1

\* the last call of calculate_sync_actions, once there was one
SyncCalled == IsSome(last_sync_call)

TheSyncCall == Unwrap(last_sync_call)

\* the call found the pause states agreeing and no do_seek: it compared the
\* positions
PositionsCompared(call) ==
    /\ ~call.inputs.do_seek
    /\ call.inputs.local_paused = call.inputs.global_paused

\* the call found the player ahead by more than the rewind threshold, with
\* rewind enabled
Rewinding(call) ==
    /\ PositionsCompared(call)
    /\ call.before.rewind_on_desync
    /\ PositionDiff(call.inputs) > seek_threshold_rewind

\* C14: a call that finds the pause states agreeing, no do_seek, rewind
\* enabled and the local position ahead of the age-adjusted global position
\* by more than the rewind threshold returns exactly
\* [Seek(adjusted_global_position)] and leaves the slowdown inactive and the
\* fast-forward timer cleared.
C14_RewindSeeksToGlobal ==
    (SyncCalled /\ Rewinding(TheSyncCall)) =>
        /\ TheSyncCall.actions = <<Seek(AdjustedGlobalPosition(TheSyncCall.inputs))>>
        /\ ~is_slowdown_active(TheSyncCall.after)
        /\ TheSyncCall.after.behind_first_detected = None
        /\ sync_engine = TheSyncCall.after

\* a rewind of a slowed-down player whose timer was running, for a message
\* that had an age
C14_Witness ==
    /\ SyncCalled
    /\ Rewinding(TheSyncCall)
    /\ TheSyncCall.before.slowdown_active
    /\ TheSyncCall.before.behind_first_detected /= None
    /\ TheSyncCall.inputs.message_age > 0
    /\ ~TheSyncCall.inputs.global_paused

\* the call reached the fast-forward step: it compared the positions, did
\* not rewind, and fast-forward was allowed and enabled
FastForwardStep(call) ==
    /\ PositionsCompared(call)
    /\ ~Rewinding(call)
    /\ call.inputs.allow_fastforward
    /\ call.before.fastforward_on_desync

\* the player was behind by more than 1.75 s
Behind(call) == PositionDiff(call.inputs) < -FASTFORWARD_BEHIND_THRESHOLD

\* the timer the call found had been set more than (5.0 - 1.75) s earlier
WaitedLongEnough(call) ==
    /\ call.before.behind_first_detected /= None
    /\ DurationSince(call.instant, Unwrap(call.before.behind_first_detected))
          > seek_threshold_fastforward - FASTFORWARD_BEHIND_THRESHOLD

\* C15 as stated: with fast-forward allowed and enabled, Seek(adjusted_global
\* + 0.25) is emitted only when every call since the timer was set found the
\* player behind by more than 1.75 s, more than (5.0 - 1.75) s have passed
\* since the timer and the lag exceeds 5.0 s; after it the timer is now +
\* 3.0 s; and any call with a lag of at most 1.75 s clears the timer.
C15_FastForwardOnlyWhenBehindOnEveryCall ==
    (/\ SyncCalled
     /\ TheSyncCall.inputs.allow_fastforward
     /\ TheSyncCall.before.fastforward_on_desync) =>
        /\ FastForwarded(TheSyncCall) =>
              /\ TheSyncCall.behind_since_set
              /\ WaitedLongEnough(TheSyncCall)
              /\ PositionDiff(TheSyncCall.inputs) < -seek_threshold_fastforward
              /\ TheSyncCall.after.behind_first_detected =
                    Some(TheSyncCall.instant + FASTFORWARD_RESET_THRESHOLD)
        /\ ~Behind(TheSyncCall) => TheSyncCall.after.behind_first_detected = None

\* C15, amended: Seek(adjusted_global + 0.25) is emitted exactly by a call
\* that reaches the fast-forward step, finds a timer set more than
\* (5.0 - 1.75) s earlier and a lag of more than 5.0 s; that call leaves the
\* timer at now + 3.0 s and the slowdown inactive.  A call that reaches the
\* step with a lag of at most 1.75 s clears the timer; a call that does not
\* compare the positions (the pause states differ, or do_seek is set), or
\* for which fast-forward is not allowed, leaves the timer as it was,
\* whatever the lag.
C15_FastForwardAfterWaiting ==
    SyncCalled =>
        /\ FastForwarded(TheSyncCall) <=>
              /\ FastForwardStep(TheSyncCall)
              /\ WaitedLongEnough(TheSyncCall)
              /\ PositionDiff(TheSyncCall.inputs) < -seek_threshold_fastforward
        /\ FastForwarded(TheSyncCall) =>
              /\ TheSyncCall.after.behind_first_detected =
                    Some(TheSyncCall.instant + FASTFORWARD_RESET_THRESHOLD)
              /\ ~is_slowdown_active(TheSyncCall.after)
        /\ (FastForwardStep(TheSyncCall) /\ ~Behind(TheSyncCall)) =>
              TheSyncCall.after.behind_first_detected = None
        /\ (~FastForwardStep(TheSyncCall) /\ ~Rewinding(TheSyncCall)) =>
              TheSyncCall.after.behind_first_detected =
                  TheSyncCall.before.behind_first_detected

\* a fast-forward after a call that left the timer running although the
\* player was not behind
C15_Witness ==
    /\ SyncCalled
    /\ FastForwarded(TheSyncCall)
    /\ ~TheSyncCall.behind_since_set

\* a second fast-forward, more than 3.0 + 3.25 s after the first
C15_WitnessAgain ==
    /\ SyncCalled
    /\ FastForwarded(TheSyncCall)
    /\ Len(SelectSeq(player_commands, LAMBDA c : c.command = "set_position")) = 2
    /\ TheSyncCall.behind_since_set
    /\ sync_calls = 3

\* the inputs of test_sync_seek_when_behind: local 5.0, global 10.0, both
\* playing, fast-forward allowed
BehindByThreshold == SyncInputs(100, FALSE, 200, FALSE, 0, FALSE, TRUE)

C16_WitnessWaited ==
    /\ SyncCalled
    /\ TheSyncCall.inputs = BehindByThreshold
    /\ WaitedLongEnough(TheSyncCall)
    /\ TheSyncCall.before.fastforward_on_desync

\* both sides playing, positions compared, and the difference above the
\* slowdown threshold without reaching the rewind or fast-forward threshold
MinorDesync(call) ==
    /\ PositionsCompared(call)
    /\ ~call.inputs.local_paused
    /\ ~call.inputs.global_paused
    /\ Abs(PositionDiff(call.inputs)) > slowdown_threshold
    /\ PositionDiff(call.inputs) < seek_threshold_rewind
    /\ PositionDiff(call.inputs) > -seek_threshold_fastforward

\* the inputs of test_sync_slowdown: local 8.0, global 10.0, both playing,
\* fast-forward allowed
BehindByTwoSeconds == SyncInputs(160, FALSE, 200, FALSE, 0, FALSE, TRUE)

\* C17: a call that finds both sides playing, slowdown enabled and not yet
\* active and a difference above the slowdown threshold that reaches no seek
\* threshold returns Slowdown as its first action and leaves
\* is_slowdown_active() true, fast-forward being allowed or not.
C17_SlowdownOnMinorDesync ==
    (/\ SyncCalled
     /\ MinorDesync(TheSyncCall)
     /\ TheSyncCall.before.slow_on_desync
     /\ ~TheSyncCall.before.slowdown_active) =>
        /\ TheSyncCall.actions[1] = Slowdown
        /\ is_slowdown_active(TheSyncCall.after)

\* the call of test_sync_slowdown on a new engine: it returns [None], the
\* slowdown stays inactive and the player is given no command
C17_Witness ==
    /\ SyncCalled
    /\ sync_calls = 1
    /\ TheSyncCall.before = NewSyncEngine
    /\ TheSyncCall.inputs = BehindByTwoSeconds
    /\ TheSyncCall.actions = <<SyncNone>>
    /\ ~is_slowdown_active(sync_engine)
    /\ player_commands = << >>

\* the call found the slowdown active, the pause states agreeing and the
\* difference below the reset threshold
BackInSync(call) ==
    /\ call.before.slowdown_active
    /\ call.inputs.local_paused = call.inputs.global_paused
    /\ Abs(PositionDiff(call.inputs)) < slowdown_reset_threshold

\* the speed the player was last told to play at, in hundredths
RECURSIVE LastSpeed(_)
LastSpeed(commands) ==
    IF commands = << >> THEN 100
    ELSE IF commands[Len(commands)].command = "set_speed"
    THEN commands[Len(commands)].speed
    ELSE LastSpeed(SubSeq(commands, 1, Len(commands) - 1))

\* C18: a call that finds the slowdown active, the pause states agreeing and
\* the difference below the reset threshold returns ResetSpeed and leaves the
\* slowdown inactive, whatever allow_fastforward is.
C18_ResetSpeedWhenBackInSync ==
    (SyncCalled /\ BackInSync(TheSyncCall)) =>
        /\ \E i \in DOMAIN TheSyncCall.actions : TheSyncCall.actions[i] = ResetSpeed
        /\ ~is_slowdown_active(TheSyncCall.after)

\* a slowed-down player back in sync while fast-forward is allowed: the call
\* returns [None], the slowdown stays active and the player stays slow
C18_Witness ==
    /\ SyncCalled
    /\ BackInSync(TheSyncCall)
    /\ TheSyncCall.inputs.allow_fastforward
    /\ TheSyncCall.actions = <<SyncNone>>
    /\ is_slowdown_active(sync_engine)
    /\ LastSpeed(player_commands) = slowdown_rate

\* the actions of a list that make the player do something
Effective(actions) == SelectSeq(actions, LAMBDA a : a.action /= "None")

\* C19: in the list of every call SetPaused is present exactly when
\* local_paused differs from global_paused, carries global_paused and is the
\* first action; any Seek comes before any Slowdown or ResetSpeed; and
\* handle_state_update gives the player the commands of the actions in the
\* order of the list.
C19_ActionsOrderedAndAppliedInOrder ==
    SyncCalled =>
        LET call == TheSyncCall
            actions == call.actions
            given == Effective(actions)
        IN  /\ (\E i \in DOMAIN actions : actions[i].action = "SetPaused")
                  <=> (call.inputs.local_paused /= call.inputs.global_paused)
            /\ \A i \in DOMAIN actions :
                  actions[i].action = "SetPaused" =>
                      /\ i = 1
                      /\ actions[i].paused = call.inputs.global_paused
            /\ \A i, j \in DOMAIN actions :
                  (/\ actions[i].action = "Seek"
                   /\ actions[j].action \in {"Slowdown", "ResetSpeed"}) => i < j
            /\ Len(call.commands) = Len(given)
            /\ \A k \in DOMAIN given : <<call.commands[k]>> = CommandOf(given[k])
            /\ Len(player_commands) >= Len(call.commands)
            /\ SubSeq(player_commands,
                      Len(player_commands) - Len(call.commands) + 1,
                      Len(player_commands)) = call.commands

\* a list of three actions, SetPaused, Seek and ResetSpeed, given to the
\* player as set_paused, set_position and set_speed
C19_Witness ==
    /\ SyncCalled
    /\ Len(TheSyncCall.actions) = 3
    /\ TheSyncCall.actions[1].action = "SetPaused"
    /\ TheSyncCall.actions[2].action = "Seek"
    /\ TheSyncCall.actions[3] = ResetSpeed
    /\ Len(TheSyncCall.commands) = 3
    /\ TheSyncCall.commands[1].command = "set_paused"
    /\ TheSyncCall.commands[3].command = "set_speed"

\* C20 as stated: a call with do_seek set returns Seek(adjusted_global),
\* after SetPaused if the pause states differ, and no other action; it
\* clears the slowdown flag and runs none of the rewind, fast-forward,
\* slowdown and reset-speed steps.
C20_DoSeekOnlySeeks ==
    (SyncCalled /\ TheSyncCall.inputs.do_seek) =>
        /\ TheSyncCall.actions =
              SyncPause(TheSyncCall.inputs)
                 \o <<Seek(AdjustedGlobalPosition(TheSyncCall.inputs))>>
        /\ TheSyncCall.after = [TheSyncCall.before EXCEPT !.slowdown_active = FALSE]

\* C20, amended: a call with do_seek set returns Seek(adjusted_global), after
\* SetPaused if the pause states differ and followed by ResetSpeed exactly
\* when the slowdown was active; it clears the slowdown flag and leaves the
\* rest of the engine, the fast-forward timer included, as it was: the
\* comparison of the positions does not run.
C20_DoSeekSeeksAndResetsSpeed ==
    (SyncCalled /\ TheSyncCall.inputs.do_seek) =>
        /\ TheSyncCall.actions =
              SyncPause(TheSyncCall.inputs)
                 \o <<Seek(AdjustedGlobalPosition(TheSyncCall.inputs))>>
                 \o (IF TheSyncCall.before.slowdown_active
                     THEN <<ResetSpeed>> ELSE << >>)
        /\ TheSyncCall.after = [TheSyncCall.before EXCEPT !.slowdown_active = FALSE]

\* a do_seek for a slowed-down player that is more than the rewind threshold
\* ahead, the pause states agreeing and the timer running
C20_Witness ==
    /\ SyncCalled
    /\ TheSyncCall.inputs.do_seek
    /\ TheSyncCall.before.slowdown_active
    /\ TheSyncCall.before.behind_first_detected /= None
    /\ TheSyncCall.inputs.local_paused = TheSyncCall.inputs.global_paused
    /\ TheSyncCall.before.rewind_on_desync
    /\ PositionDiff(TheSyncCall.inputs) > seek_threshold_rewind

\* the smaller of two numbers
Min(a, b) == IF a < b THEN a ELSE b

\* C21: after N calls of add_message on a ChatManager of capacity C, len() is
\* min(N, C) and get_messages() is the last min(N, C) messages added, in the
\* order they were added.
C21_ChatKeepsTheLastMessages ==
    LET kept == Min(Len(added), max_messages)
    IN  /\ ChatLen = kept
        /\ get_messages = SubSeq(added, Len(added) - kept + 1, Len(added))

\* more messages added than the capacity holds, the capacity holding at
\* least two
C21_Witness ==
    /\ max_messages >= 2
    /\ Len(added) > max_messages + 1
    /\ ChatLen = max_messages
    /\ added[1] /= added[Len(added)]

\* the item the current index designates
Designated(pl) ==
    IF IsSome(pl.current_index) /\ Unwrap(pl.current_index) < Len(pl.items)
    THEN Some(pl.items[Unwrap(pl.current_index) + 1])
    ELSE None

Distinct(v) == \A i, j \in DOMAIN v : i /= j => v[i] /= v[j]

Without(v, x) == SelectSeq(v, LAMBDA y : y /= x)

ThePlaylistCall == Unwrap(last_playlist_call)

\* C22: on a playlist of distinct items, reorder(from, to) with both indices
\* in bounds puts the item of from at to, leaves the others in their order
\* and leaves current_index on the item it designated; remove_item(i) with i
\* not the current index leaves it on the same item, one lower when i is
\* below it; remove_item of the current item keeps the index, moves it to
\* the last position when it points past the end and clears it when the list
\* becomes empty.
C22_CurrentIndexFollowsItsItem ==
    (IsSome(last_playlist_call) /\ Distinct(ThePlaylistCall.before.items)) =>
        LET call == ThePlaylistCall
            before == call.before
            after == ThePlaylist
            length == Len(before.items)
            cur == before.current_index
        IN  /\ (/\ call.method = "reorder"
                /\ call.first < length
                /\ call.second < length) =>
                  LET item == before.items[call.first + 1]
                  IN  /\ after.items[call.second + 1] = item
                      /\ Without(after.items, item) = Without(before.items, item)
                      /\ Len(after.items) = length
                      /\ Designated(after) = Designated(before)
            /\ (/\ call.method = "remove_item"
                /\ call.first < length
                /\ cur /= Some(call.first)) =>
                  /\ Designated(after) = Designated(before)
                  /\ after.current_index =
                        IF IsSome(cur) /\ call.first < Unwrap(cur)
                        THEN Some(Unwrap(cur) - 1) ELSE cur
            /\ (/\ call.method = "remove_item"
                /\ call.first < length
                /\ cur = Some(call.first)) =>
                  after.current_index =
                      IF after.items = << >> THEN None
                      ELSE IF call.first >= Len(after.items)
                      THEN Some(Len(after.items) - 1)
                      ELSE cur

\* an item moved from below the current item to above it, among three
C22_Witness ==
    /\ IsSome(last_playlist_call)
    /\ ThePlaylistCall.method = "reorder"
    /\ Len(ThePlaylistCall.before.items) = 3
    /\ Distinct(ThePlaylistCall.before.items)
    /\ ThePlaylistCall.before.current_index = Some(1)
    /\ ThePlaylistCall.first = 0
    /\ ThePlaylistCall.second = 2
    /\ current_index = Some(0)

\* the current item removed from the end of the list
C22_WitnessRemoveLast ==
    /\ IsSome(last_playlist_call)
    /\ ThePlaylistCall.method = "remove_item"
    /\ Distinct(ThePlaylistCall.before.items)
    /\ Len(ThePlaylistCall.before.items) = 3
    /\ ThePlaylistCall.before.current_index = Some(2)
    /\ ThePlaylistCall.first = 2
    /\ current_index = Some(1)

\* a step of the Hello arm of handle_server_message
HelloHandled ==
    /\ loop_pc = "idle"
    /\ msg_rx /= << >>
    /\ Head(msg_rx).type = "Hello"
    /\ msg_rx' = Tail(msg_rx)

SetHandled ==
    /\ loop_pc = "idle"
    /\ msg_rx /= << >>
    /\ Head(msg_rx).type = "Set"
    /\ msg_rx' = Tail(msg_rx)

\* the Set being handled carries controllerAuth with this verdict, naming
\* the local user (or nobody, which stands for the local user)
AuthForLocalUser(success) ==
    /\ IsSome(Head(msg_rx).controller_auth)
    /\ Unwrap(Head(msg_rx).controller_auth).success = Some(success)
    /\ Unwrap(Head(msg_rx).controller_auth).user \in {None, Some(LocalUsername)}

\* who is in the room with which rights
Standing(us) ==
    {[username |-> user.username, room |-> user.room,
      is_controller |-> user.is_controller] : user \in us}

\* C24: Set.controllerAuth with success = true for the local user in the
\* current room leaves the local user a controller and the attempted password
\* stored for that room; with success = false for the local user an error
\* chat line is posted and no user's is_controller or room changes
C24_ControllerAuthForTheLocalUser ==
    [][/\ (SetHandled /\ AuthForLocalUser(TRUE)
           /\ Unwrap(Head(msg_rx).controller_auth).room \in {None, Some(room)}) =>
              /\ IsSome(get_user(users', LocalUsername))
              /\ Unwrap(get_user(users', LocalUsername)).is_controller
              /\ Unwrap(get_user(users', LocalUsername)).room = room
              /\ IsSome(last_control_password_attempt) =>
                    Get(controlled_room_passwords', room)
                        = last_control_password_attempt
       /\ (SetHandled /\ AuthForLocalUser(FALSE)) =>
              /\ Len(events') = Len(events) + 1
              /\ events'[Len(events')].event = "chat-message-received"
              /\ events'[Len(events')].messageType = "error"
              /\ Standing(users') = Standing(users)]_vars

\* the local user became controller of a room whose password was only an
\* attempt until the server confirmed it
C24_Witness ==
    /\ room = <<"managed">>
    /\ IsSome(get_user(users, LocalUsername))
    /\ Unwrap(get_user(users, LocalUsername)).is_controller
    /\ Get(controlled_room_passwords, room) = Some(<<"created">>)
    /\ last_control_password_attempt = Some(<<"created">>)

\* the server refused the local user: the error line is the last event and
\* nobody is a controller
C24_WitnessRefused ==
    /\ events /= << >>
    /\ events[Len(events)]
          = ChatError(<<LocalUsername, "failed", "to", "identify", "as", "a", "room",
                        "operator">>)
    /\ users /= {}
    /\ \A user \in users : ~user.is_controller

\* the Set being handled carries ready for a named user without isReady
ReadyWithoutValue ==
    /\ IsSome(Head(msg_rx).ready)
    /\ IsSome(Unwrap(Head(msg_rx).ready).username)
    /\ Unwrap(Head(msg_rx).ready).is_ready = None

\* C25: a Set.ready whose isReady is null or absent leaves the is_ready of
\* the named user's entry and the local ready flag as they were
C25_ReadyWithoutValueKeepsReadiness ==
    [][(SetHandled /\ ReadyWithoutValue) =>
          LET name == Unwrap(Unwrap(Head(msg_rx).ready).username)
          IN  /\ ready' = ready
              /\ IsSome(get_user(users, name)) =>
                    /\ IsSome(get_user(users', name))
                    /\ Unwrap(get_user(users', name)).is_ready
                          = Unwrap(get_user(users, name)).is_ready]_vars

\* a Set.ready without isReady naming the local user was the last line read
\* and has been handled, and the local user is still ready
C25_Witness ==
    /\ read_log /= << >>
    /\ read_log[Len(read_log)]
          = [kind |-> "message",
             message |-> SetMessage(Some(ReadyState(Some(LocalUsername), None)),
                                    None, None)]
    /\ msg_rx = << >>
    /\ ready
    /\ IsSome(get_user(users, LocalUsername))
    /\ Unwrap(get_user(users, LocalUsername)).is_ready

\* C27: the reply to a State carries no playstate as long as the local
\* playback state has never been updated from the player.  Nothing calls
\* LocalPlaybackState::update_from_player, so no reply may carry one.
C27_NoPlaystateBeforeThePlayerReports ==
    \A i \in DOMAIN state_log :
        IsSome(state_log[i].reply) => Unwrap(state_log[i].reply).playstate = None

\* a reply that carries the position and pause flag LocalPlaybackState::new
\* starts with
C27_Witness ==
    \E i \in DOMAIN state_log :
        /\ IsSome(state_log[i].reply)
        /\ Unwrap(state_log[i].reply).playstate = Some(LocalPlayState)

\* a turn of the loop of the pump while connected
PumpTicked == pump_ticks' = pump_ticks + 1 /\ connection /= None

\* the pump finds the player playing where it last sent it paused
Unpaused ==
    /\ IsSome(last_sent)
    /\ Unwrap(last_sent).paused = Some(TRUE)
    /\ player_paused = Some(FALSE)

\* the last tick of the pump
TheTick == Unwrap(last_tick)

\* C26: suppress_unpause_check and suppress_next_file_update each suppress
\* one check of the pump: the check that finds the flag up is suppressed and
\* takes it down, and a check that finds it down is not suppressed
C26_FlagsSuppressOneCheck ==
    [][PumpTicked =>
          /\ (Unpaused /\ suppress_unpause_check) =>
                /\ ~suppress_unpause_check'
                /\ ~TheTick'.blocked
                /\ player_commands' = player_commands
          /\ (/\ Unpaused
              /\ ~suppress_unpause_check
              /\ ~instaplay_conditions_met(unpause_action, users, room, ready)) =>
                /\ TheTick'.blocked
                /\ ~suppress_unpause_check'
          /\ (~TheTick'.blocked /\ file_info_changed(get_state, last_sent)) =>
                /\ ~suppress_next_file_update'
                /\ suppress_next_file_update => TheTick'.file_update = None
                /\ (~suppress_next_file_update /\ IsSome(player_file)) =>
                      TheTick'.file_update = player_file]_vars

\* one tick found both flags up, an unpause and another file, and took both
\* flags down without pausing the player or announcing the file
C26_Witness ==
    /\ IsSome(last_tick)
    /\ TheTick.suppress_unpause_check
    /\ TheTick.suppress_next_file_update
    /\ IsSome(TheTick.prev)
    /\ Unwrap(TheTick.prev).paused = Some(TRUE)
    /\ TheTick.state.paused = Some(FALSE)
    /\ Unwrap(TheTick.prev).filename /= TheTick.state.filename
    /\ ~TheTick.blocked
    /\ TheTick.file_update = None
    /\ ~suppress_unpause_check
    /\ ~suppress_next_file_update

\* C29: while connected, when the pump finds the player unpaused, the flag
\* suppress_unpause_check down and the instaplay conditions not met, it
\* pauses the player, sends Set.ready (ready, manually initiated) exactly
\* when the local user was not ready, and sends nothing else on that tick
C29_UnpauseBlocked ==
    [][(/\ PumpTicked
        /\ CanSend
        /\ Unpaused
        /\ ~suppress_unpause_check
        /\ ~instaplay_conditions_met(unpause_action, users, room, ready)) =>
          /\ player_commands' = Append(player_commands, SetPausedCommand(TRUE))
          /\ sends' = sends \o (IF ready THEN << >> ELSE <<ManualReadyMessage>>)
          /\ last_sent' = last_sent]_vars

\* the pump blocked the unpause of a user who was not ready and announced
\* that the user is
C29_Witness ==
    /\ IsSome(last_tick)
    /\ TheTick.blocked
    /\ ~TheTick.ready
    /\ TheTick.messages = <<ManualReadyMessage>>
    /\ TheTick.commands = <<SetPausedCommand(TRUE)>>
    /\ player_paused = Some(TRUE)
    /\ ready

\* the pump blocked the unpause of a user who was ready and sent nothing
C29_WitnessReady ==
    /\ IsSome(last_tick)
    /\ TheTick.blocked
    /\ TheTick.ready
    /\ TheTick.messages = << >>

\* C30: after load_media_by_name has loaded a file for the server, no tick of
\* the pump sends Set.file for that file, until the user opens a file
C30_NoEchoOfTheServersFile ==
    IsSome(last_tick) =>
        ~(/\ IsSome(TheTick.file_update)
          /\ TheTick.file_update = TheTick.server_loaded)

\* the pump announced the file the server had it load, with the duration
\* the player reported after the file name
C30_Witness ==
    /\ IsSome(last_tick)
    /\ TheTick.server_loaded = Some(2)
    /\ TheTick.file_update = Some(2)
    /\ TheTick.messages[1] = FileUpdate(2, Some(DurationOf(2)))

\* the last tick of the pump called all_other_users_ready while the List arm
\* was between clear_users and the end of its loops
ReadDuringList ==
    /\ IsSome(last_tick)
    /\ IsSome(TheTick.users)
    /\ IsSome(TheTick.listing)

\* C28: handling a List replaces the users map atomically: what the
\* instaplay gate of the pump reads from the users map while a List is
\* handled is the map the List found or the complete list of the message
C28_ListReplacesUsersAtomically ==
    ReadDuringList =>
        Unwrap(TheTick.users) \in {Unwrap(TheTick.listing).previous,
                                   Unwrap(TheTick.listing).complete}

\* C28: a tick of the pump found the player unpaused while a List that
\* names bob as not ready, as the map before it did, was being handled
C28_Witness ==
    /\ ReadDuringList
    /\ \E user \in Unwrap(TheTick.listing).previous :
          user.username = "bob" /\ ~user.is_ready
    /\ \E user \in Unwrap(TheTick.listing).complete :
          user.username = "bob" /\ ~user.is_ready

\* the calls of send_command_async that have returned a response, and the
\* response of such a call
Answered == {i \in DOMAIN mpv_calls : /\ mpv_calls[i].pc = "returned"
                                      /\ Unwrap(mpv_calls[i].result).ok}

ResponseOf(i) == Unwrap(Unwrap(mpv_calls[i].result).response)

\* C31: no two calls of send_command_async take the same request_id, the
\* response a call returns carries the call's request_id, and no response
\* is returned by two calls
C31_ResponsesMatchRequests ==
    /\ \A i, j \in DOMAIN mpv_calls :
          mpv_calls[i].request_id = mpv_calls[j].request_id => i = j
    /\ \A i \in Answered : ResponseOf(i).request_id = Some(mpv_calls[i].request_id)
    /\ \A i, j \in Answered : ResponseOf(i) = ResponseOf(j) => i = j

\* C31: three calls were outstanding together and a later one got its
\* response before an earlier one
C31_Witness ==
    /\ Len(mpv_calls) = 3
    /\ Answered = {1, 2, 3}
    /\ \E i, j \in Answered : i < j /\ ResponseOf(i).serial > ResponseOf(j).serial

\* C40: every call of send_command_async that has reached its wait returns,
\* with a response or an error
C40_EveryCallReturns ==
    \A i \in 1..MaxCalls :
        (i \in DOMAIN mpv_calls /\ mpv_calls[i].pc = "waiting")
            ~> (i \in DOMAIN mpv_calls /\ mpv_calls[i].pc = "returned")

\* C40: MPV closed the socket, both tasks have ended, and a call still
\* waits for the response to a command it handed to the write task
C40_Witness ==
    /\ ~mpv_open
    /\ mpv_reader = "terminated"
    /\ mpv_writer = "terminated"
    /\ \E i \in DOMAIN mpv_calls :
          /\ mpv_calls[i].pc = "waiting"
          /\ \E e \in pending_requests : e.call = i

\* the room-warning tasks that have not ended
WarningLoops == {j \in DOMAIN warning_tasks : warning_tasks[j] = "sleeping"}

\* C32: at most one room-warning loop task is running at any time
C32_OneWarningLoop == Cardinality(WarningLoops) <= 1

\* C32: the user disconnected and connected again before the loop of the
\* first session woke, and the second session spawned its own loop
C32_Witness ==
    /\ connects = 2
    /\ connection /= None
    /\ Len(warning_tasks) = 2
    /\ warning_tasks[1] = "sleeping"

\* C34: the closure handler of a finished session leaves the stored
\* connection, which a later connect_to_server created, where it is
C34_OldClosureKeepsNewConnection ==
    [][old_loops' < old_loops => connection' = connection]_vars

\* C34: after a disconnect and a new connect the loop of the first session
\* has yet to run its closure handler and the new connection is stored
C34_Witness ==
    /\ old_loops > 0
    /\ connects = 2
    /\ connect_pc = "done"
    /\ connection /= None

\* the countdown tasks that have not returned
AliveCountdowns == {i \in DOMAIN countdown_tasks : countdown_tasks[i].pc /= "returned"}

\* C33: at most one autoplay countdown task is alive at any time
C33_OneCountdownTask == Cardinality(AliveCountdowns) <= 1

\* C33: a countdown was cancelled and started again while the task of the
\* first slept; both tasks are alive and the countdown stands lower than the
\* checks of the task started last account for
C33_Witness ==
    /\ Cardinality(AliveCountdowns) = 2
    /\ autoplay.countdown_active
    /\ autoplay.countdown_remaining
         < AUTOPLAY_DELAY_SECONDS - countdown_tasks[Len(countdown_tasks)].checks

\* the Hellos Connection::send accepted in this session
HellosSent == {i \in DOMAIN sends : sends[i] = HelloMessage}

\* C35: in one session at most one Hello is sent, and hello_sent is set
\* only when a Hello was handed to the connection
C35_OneHelloPerSession ==
    /\ Cardinality(HellosSent) <= 1
    /\ hello_sent => HellosSent /= {}

\* C35: the server answered the TLS request twice over, with "false" and
\* with an Error naming startTLS in either order or one of them twice; both
\* were handled and one Hello was sent
C35_Witness ==
    /\ Len(read_log) = 2
    /\ \A i \in DOMAIN read_log :
          /\ read_log[i].kind = "message"
          /\ read_log[i].message \in {TLSMessage(Some("false")),
                                      ErrorMessage(<<"startTLS", "refused">>)}
    /\ msg_rx = << >>
    /\ loop_pc = "idle"
    /\ hello_sent
    /\ Cardinality(HellosSent) = 1

\* C36: every State, Set, Chat or List message written to the server comes
\* after the session's Hello
C36_NothingWrittenBeforeHello ==
    \A i \in DOMAIN wire :
        wire[i].message.type \in {"State", "Set", "Chat", "List"} =>
            \E j \in 1..(i - 1) : wire[j].message = HelloMessage

\* C36: the TLS request is written and unanswered, no Hello has been sent,
\* and the pump has handed a State message to the stored connection
C36_Witness ==
    /\ connection /= None
    /\ ~hello_sent
    /\ HellosSent = {}
    /\ lines_read = 0
    /\ pump_sends > 0
    /\ \E i \in DOMAIN sends : sends[i].type = "State"
    /\ \E i \in DOMAIN wire : wire[i].message = TLSMessage(Some("send"))

\* the Set.playlistIndex updates Connection::send accepted
IndexUpdates == {i \in DOMAIN sends : "playlist_index" \in DOMAIN sends[i]}

\* C37: for the one end of file of the run handle_end_of_file is called at
\* most once, the playlist is at most one item further and at most one
\* playlistIndex update was sent
C37_EndOfFileHandledOnce ==
    files_ended <= 1 =>
        /\ Len(eof_log) <= 1
        /\ Unwrap(current_index) <= 1
        /\ Cardinality(IndexUpdates) <= 1

\* C37: the first item played to its end and both the pump and the event
\* loop called handle_end_of_file for it
C37_Witness ==
    /\ files_ended = 1
    /\ \E i, j \in DOMAIN eof_log :
          eof_log[i].caller = "pump" /\ eof_log[j].caller = "event"
    /\ current_index = Some(2)

\* the pump finds the player playing by the user's doing where it last sent
\* it paused, and the instaplay conditions are not met
UserUnpaused ==
    /\ Unpaused
    /\ unpaused_by = "user"
    /\ ~instaplay_conditions_met(unpause_action, users, room, ready)

\* C38: the instaplay gate evaluates every unpause of the user: the tick of
\* the pump that finds the player unpaused by the user with the instaplay
\* conditions not met blocks it, whatever a State message has left in
\* suppress_unpause_check
C38_UserUnpauseIsGated ==
    [][(PumpTicked /\ UserUnpaused) =>
          /\ TheTick'.blocked
          /\ player_paused' = Some(TRUE)]_vars

\* C38: a State message unpaused the player and raised the flag, the user
\* paused and later unpaused, and the second tick of the pump let the
\* user's unpause through with the instaplay conditions not met
C38_Witness ==
    /\ pump_ticks = 2
    /\ unpaused_by = "user"
    /\ player_paused = Some(FALSE)
    /\ TheTick.prev = Some(PlayerState(Some(1), Some(0), Some(TRUE), Some(DurationOf(1))))
    /\ TheTick.suppress_unpause_check
    /\ ~TheTick.blocked
    /\ ~suppress_unpause_check
    /\ ~instaplay_conditions_met(unpause_action, users, room, ready)
    /\ \E i \in DOMAIN player_commands : player_commands[i] = SetPausedCommand(FALSE)

\* C39: a call of update_playlist that returned an error left the items and
\* the current index of the local playlist as they were
C39_FailedUpdateKeepsPlaylist ==
    \A i \in DOMAIN update_log :
        update_log[i].result = "Err" => update_log[i].after = update_log[i].before

\* C39: update_playlist was called with no connection to the server and
\* returned the error of send_to_server
C39_Witness ==
    \E i \in DOMAIN update_log :
        /\ update_log[i].result = "Err"
        /\ ~update_log[i].connected
        /\ update_log[i].action \in {"add", "remove", "next", "previous", "clear"}
        /\ update_log[i].after /= update_log[i].before

=============================================================================
